---- MODULE Spec2Model ----
(***************************************************************************)
(* A model of the labdata assembly pipeline (src/labdata): name            *)
(* normalisation, the alias index, exact-then-fuzzy author resolution,     *)
(* project validation, back-linking and the assemble orchestrator.         *)
(*                                                                         *)
(* Python strings are TLA+ strings; a character is a string of length 1.   *)
(* A dict is a sequence of records in insertion order.  A float ratio is   *)
(* the pair <<num, den>> of the exact quotient it rounds (the quotients    *)
(* compared here have denominators below 2^26, so IEEE division keeps      *)
(* their order and their equalities).                                      *)
(***************************************************************************)
EXTENDS Integers, Sequences, FiniteSets, TLC

VARIABLES
    pc,                  \* position in the operation being run
    config,              \* LabDataConfig with the files it names
    publications,        \* List[Publication]
    people,              \* List[Person]
    projects,            \* List[Project]
    unresolved_authors,  \* return value of resolve_authors
    unknown_projects,    \* return value of resolve_projects
    collaborators,       \* List[Collaborator]
    data,                \* the LabData built by assemble, or None
    steps,               \* history: the steps of assemble run so far
    name,                \* fuzzy_match argument
    index,               \* fuzzy_match argument
    threshold,           \* fuzzy_match argument, in hundredths
    result,              \* return value of the operation called on its own
    entry_in,            \* entry_to_publication argument: a raw record
    category_in,         \* entry_to_publication argument
    bib_files_in,        \* parse_all_publications argument
    text_in,             \* replace_latex_accents or latex_to_markdown argument
    authors_in           \* format_authors_string argument

vars == <<pc, config, publications, people, projects, unresolved_authors,
          unknown_projects, collaborators, data, steps,
          name, index, threshold, result, entry_in, category_in, bib_files_in,
          text_in, authors_in>>

\* Python's None.  No identifier of the model's pools is this string.
None == "<None>"

\* Python truthiness of an Optional[str].
Truthy(x) == x # None /\ x # ""

-----------------------------------------------------------------------------
(* Strings *)

Ch(s, i) == SubSeq(s, i, i)

From(s, i) == SubSeq(s, i, Len(s))

StartsWith(s, i, t) == i + Len(t) - 1 <= Len(s) /\ SubSeq(s, i, i + Len(t) - 1) = t

\* The control characters, printable ASCII and accented letters of the model's
\* alphabet in code-point order (the grave accent, which a TLA+ string cannot
\* hold, is left out); Python compares str values code point by code point.
CodePoints ==
    "\t\n\f\r" \o
    " !\"#$%&'()*+,-./0123456789:;<=>?@ABCDEFGHIJKLMNOP" \o
    "QRSTUVWXYZ[\\]^_abcdefghijklmnopqrstuvwxyz{|}~" \o
    "éñü"

\* The position of t in s, 0 when s does not hold it.
Find(s, t) ==
    LET at == {i \in 1..Len(s) : StartsWith(s, i, t)}
    IN  IF at = {} THEN 0 ELSE CHOOSE i \in at : \A j \in at : i <= j

\* ord() of the characters of the alphabet.
CodePointOf ==
    [c \in {Ch(CodePoints, i) : i \in 1..Len(CodePoints)} |-> Find(CodePoints, c)]

Ord(c) == IF c \in DOMAIN CodePointOf THEN CodePointOf[c] ELSE Len(CodePoints) + 1

RECURSIVE StrLess(_, _)
StrLess(s, t) ==
    IF Len(t) = 0 THEN FALSE
    ELSE IF Len(s) = 0 THEN TRUE
    ELSE IF Ch(s, 1) = Ch(t, 1) THEN StrLess(From(s, 2), From(t, 2))
    ELSE Ord(Ch(s, 1)) < Ord(Ch(t, 1))

\* sorted(S) for a set of str: ascending, by repeated extraction of the minimum.
RECURSIVE sorted(_)
sorted(S) ==
    IF S = {} THEN <<>>
    ELSE LET m == CHOOSE x \in S : \A y \in S \ {x} : StrLess(x, y)
         IN  <<m>> \o sorted(S \ {m})

UpperLetters == "ABCDEFGHIJKLMNOPQRSTUVWXYZ"
LowerLetters == "abcdefghijklmnopqrstuvwxyz"

\* str.lower() of the upper-case letters.
Lowered ==
    [c \in {Ch(UpperLetters, i) : i \in 1..Len(UpperLetters)} |->
        Ch(LowerLetters, Find(UpperLetters, c))]

LowerCh(c) == IF c \in DOMAIN Lowered THEN Lowered[c] ELSE c

RECURSIVE lower(_)
lower(s) == IF Len(s) = 0 THEN "" ELSE LowerCh(Ch(s, 1)) \o lower(From(s, 2))

\* The whitespace of str.strip() and of the regex class \s.
Whitespace == {" ", "\t", "\n", "\r", "\f"}

RECURSIVE lstrip(_)
lstrip(s) == IF Len(s) > 0 /\ Ch(s, 1) \in Whitespace THEN lstrip(From(s, 2)) ELSE s

RECURSIVE rstrip(_)
rstrip(s) == IF Len(s) > 0 /\ Ch(s, Len(s)) \in Whitespace
             THEN rstrip(SubSeq(s, 1, Len(s) - 1)) ELSE s

strip(s) == rstrip(lstrip(s))

\* str.replace('.', ''): every period removed.
RECURSIVE RemovePeriods(_)
RemovePeriods(s) ==
    IF Len(s) = 0 THEN ""
    ELSE (IF Ch(s, 1) = "." THEN "" ELSE Ch(s, 1)) \o RemovePeriods(From(s, 2))

\* The end of the shortest match of  .*?</sup>  starting at i: the position
\* after the first "</sup>" that no newline precedes ('.' matches no newline),
\* or 0 when there is none.
RECURSIVE SupEnd(_, _)
SupEnd(s, i) ==
    IF i > Len(s) THEN 0
    ELSE IF StartsWith(s, i, "</sup>") THEN i + 6
    ELSE IF Ch(s, i) = "\n" THEN 0
    ELSE SupEnd(s, i + 1)

\* re.sub(r'<sup>.*?</sup>', '', s): leftmost, non-greedy, non-overlapping.
RECURSIVE RemoveSup(_)
RemoveSup(s) ==
    IF Len(s) = 0 THEN ""
    ELSE IF StartsWith(s, 1, "<sup>") /\ SupEnd(s, 6) > 0
         THEN RemoveSup(From(s, SupEnd(s, 6)))
    ELSE Ch(s, 1) \o RemoveSup(From(s, 2))

\* re.sub(r'\s+', ' ', s): each maximal run of whitespace becomes one space.
RECURSIVE CollapseWhitespace(_)
CollapseWhitespace(s) ==
    IF Len(s) = 0 THEN ""
    ELSE IF Ch(s, 1) \in Whitespace
         THEN " " \o CollapseWhitespace(lstrip(s))
    ELSE Ch(s, 1) \o CollapseWhitespace(From(s, 2))

\* unicodedata.normalize('NFD', s) followed by the removal of every character
\* of category Mn: a precomposed letter decomposes into its base letter and a
\* combining mark, and the mark is dropped.  The letters listed are the
\* precomposed ones of the model's alphabet; every other character of it has
\* no decomposition and is not a combining mark.
Precomposed == "éñü"
BaseLetters == "enu"

\* The base letter of each precomposed letter.
Decomposed ==
    [c \in {Ch(Precomposed, i) : i \in 1..Len(Precomposed)} |->
        Ch(BaseLetters, Find(Precomposed, c))]

BaseOf(c) == IF c \in DOMAIN Decomposed THEN Decomposed[c] ELSE c

RECURSIVE StripAccents(_)
StripAccents(s) ==
    IF Len(s) = 0 THEN "" ELSE BaseOf(Ch(s, 1)) \o StripAccents(From(s, 2))

-----------------------------------------------------------------------------
(* resolver.py: normalisation and the abbreviated-name test *)

normalize_name(n) ==
    LET lowered    == strip(lower(n))
        unaccented == StripAccents(lowered)
        noperiods  == RemovePeriods(unaccented)
        nosup      == RemoveSup(noperiods)
    IN  strip(CollapseWhitespace(nosup))

AsciiLower == {Ch(LowerLetters, i) : i \in 1..Len(LowerLetters)}

IsAsciiLower(c) == c \in AsciiLower

\* ^[a-z] [a-z]+$ anchored at both ends of s.
MatchesInitialSurname(s) ==
    /\ Len(s) >= 3
    /\ IsAsciiLower(Ch(s, 1))
    /\ Ch(s, 2) = " "
    /\ \A i \in 3..Len(s) : IsAsciiLower(Ch(s, i))

\* The test for the pattern ^[a-z]\. [a-z]+$, which keeps the period of the
\* initial that normalize_name removes.
is_abbreviated_dotted(n) ==
    /\ Len(n) >= 4
    /\ IsAsciiLower(Ch(n, 1))
    /\ Ch(n, 2) = "."
    /\ Ch(n, 3) = " "
    /\ \A i \in 4..Len(n) : IsAsciiLower(Ch(n, i))

\* re.match with _ABBREVIATED_NAME_RE: '$' also matches before a final newline.
is_abbreviated(n) ==
    \/ MatchesInitialSurname(n)
    \/ /\ Len(n) > 0
       /\ Ch(n, Len(n)) = "\n"
       /\ MatchesInitialSurname(SubSeq(n, 1, Len(n) - 1))

-----------------------------------------------------------------------------
(* difflib.SequenceMatcher(None, a, b).ratio() as resolver.py uses it: no   *)
(* junk, and autojunk idle below 200 characters.  Positions are 1-based and *)
(* ranges are inclusive-exclusive as in difflib.                            *)

\* The length of the common run of a[i..] and b[j..] inside [.., ahi) x [.., bhi).
RunLen(a, b, i, j, ahi, bhi) ==
    Cardinality({k \in 1..(IF ahi - i < bhi - j THEN ahi - i ELSE bhi - j) :
                    SubSeq(a, i, i + k - 1) = SubSeq(b, j, j + k - 1)})

\* The common runs that start inside [alo, ahi) x [blo, bhi): <<i, j, k>> for
\* a run of length k > 0 of a from i and of b from j.
RunsIn(a, b, alo, ahi, blo, bhi) ==
    {<<p[1], p[2], RunLen(a, b, p[1], p[2], ahi, bhi)>> :
        p \in {q \in (alo..(ahi - 1)) \X (blo..(bhi - 1)) : Ch(a, q[1]) = Ch(b, q[2])}}

\* m is at least as long as r, and starts no later in a, then in b.
NoLater(m, r) ==
    \/ m[3] > r[3]
    \/ m[3] = r[3] /\ m[1] < r[1]
    \/ m[3] = r[3] /\ m[1] = r[1] /\ m[2] <= r[2]

Longest(runs, alo, blo) ==
    IF runs = {} THEN <<alo, blo, 0>>
    ELSE CHOOSE m \in runs : \A r \in runs : NoLater(m, r)

\* find_longest_match: the longest block, the earliest in a among the longest,
\* the earliest in b among those.  <<i, j, k>>, k = 0 when nothing matches.
find_longest_match(a, b, alo, ahi, blo, bhi) ==
    Longest(RunsIn(a, b, alo, ahi, blo, bhi), alo, blo)

\* get_matching_blocks, summed: the block m found, then the blocks to its
\* left and to its right.
RECURSIVE MatchedCharacters(_, _, _, _, _, _)
RECURSIVE BlocksAround(_, _, _, _, _, _, _)
BlocksAround(a, b, alo, ahi, blo, bhi, m) ==
    IF m[3] = 0 THEN 0
    ELSE m[3]
         + (IF alo < m[1] /\ blo < m[2]
            THEN MatchedCharacters(a, b, alo, m[1], blo, m[2]) ELSE 0)
         + (IF m[1] + m[3] < ahi /\ m[2] + m[3] < bhi
            THEN MatchedCharacters(a, b, m[1] + m[3], ahi, m[2] + m[3], bhi) ELSE 0)

MatchedCharacters(a, b, alo, ahi, blo, bhi) ==
    BlocksAround(a, b, alo, ahi, blo, bhi,
                 find_longest_match(a, b, alo, ahi, blo, bhi))

\* ratio(): 2.0 * matches / (len(a) + len(b)), and 1.0 for two empty strings.
ratio(a, b) ==
    IF Len(a) + Len(b) = 0 THEN <<1, 1>>
    ELSE <<2 * MatchedCharacters(a, b, 1, Len(a) + 1, 1, Len(b) + 1),
           Len(a) + Len(b)>>

RatioGreater(r, s) == r[1] * s[2] > s[1] * r[2]

\* r >= t for a threshold t given in hundredths.
RatioAtLeast(r, t) == r[1] * 100 >= t * r[2]

-----------------------------------------------------------------------------
(* resolver.py: the alias index *)

\* Default fuzzy match threshold 0.85, in hundredths.
FUZZY_THRESHOLD == 85

\* dict operations on a sequence of [key, value] records in insertion order.
HasKey(d, k) == \E i \in 1..Len(d) : d[i].key = k

Get(d, k) == d[CHOOSE i \in 1..Len(d) : d[i].key = k].value

\* d[k] = v: an existing key keeps its place, a new key goes last.
Put(d, k, v) ==
    IF HasKey(d, k)
    THEN [i \in 1..Len(d) |-> IF d[i].key = k THEN [key |-> k, value |-> v] ELSE d[i]]
    ELSE Append(d, [key |-> k, value |-> v])

\* d.pop(k), the dict that remains.
Pop(d, k) == SelectSeq(d, LAMBDA e : e.key # k)

\* One name of one person entered into <<index, ambiguous>> (the canonical
\* name, lines 74-78).
IndexCanonical(st, normalized, id) ==
    IF HasKey(st.index, normalized) /\ Get(st.index, normalized) # id
    THEN [index |-> Pop(st.index, normalized),
          ambiguous |->
             IF HasKey(st.ambiguous, normalized)
             THEN Put(st.ambiguous, normalized,
                      Append(Get(st.ambiguous, normalized), id))
             ELSE Put(st.ambiguous, normalized,
                      <<Get(st.index, normalized), id>>)]
    ELSE IF ~HasKey(st.ambiguous, normalized)
    THEN [st EXCEPT !.index = Put(st.index, normalized, id)]
    ELSE st

\* An alias entered with no regard for the ambiguous keys.
IndexAlias_readding(st, normalized_alias, id) ==
    IF HasKey(st.index, normalized_alias) /\ Get(st.index, normalized_alias) # id
    THEN [index |-> Pop(st.index, normalized_alias),
          ambiguous |->
             Put(st.ambiguous, normalized_alias,
                 <<Get(st.index, normalized_alias), id>>)]
    ELSE [st EXCEPT !.index = Put(st.index, normalized_alias, id)]

\* One alias of one person entered into <<index, ambiguous>> (lines 82-88).
IndexAlias(st, normalized_alias, id) ==
    IF HasKey(st.index, normalized_alias) /\ Get(st.index, normalized_alias) # id
    THEN [index |-> Pop(st.index, normalized_alias),
          ambiguous |->
             IF HasKey(st.ambiguous, normalized_alias)
             THEN Put(st.ambiguous, normalized_alias,
                      Append(Get(st.ambiguous, normalized_alias), id))
             ELSE Put(st.ambiguous, normalized_alias,
                      <<Get(st.index, normalized_alias), id>>)]
    ELSE IF HasKey(st.ambiguous, normalized_alias)
    THEN [st EXCEPT !.ambiguous =
             Put(st.ambiguous, normalized_alias,
                 Append(Get(st.ambiguous, normalized_alias), id))]
    ELSE [st EXCEPT !.index = Put(st.index, normalized_alias, id)]

RECURSIVE IndexAliases(_, _, _)
IndexAliases(st, aliases, id) ==
    IF aliases = <<>> THEN st
    ELSE IndexAliases(IndexAlias(st, normalize_name(Head(aliases)), id),
                      Tail(aliases), id)

RECURSIVE IndexPeople(_, _)
IndexPeople(st, ps) ==
    IF ps = <<>> THEN st
    ELSE LET person == Head(ps)
             named  == IndexCanonical(st, normalize_name(person.name), person.id)
         IN  IndexPeople(IndexAliases(named, person.aliases, person.id), Tail(ps))

\* The index and the ambiguous keys after the loop over people.
AliasIndexState(ps) == IndexPeople([index |-> <<>>, ambiguous |-> <<>>], ps)

build_alias_index(ps) == AliasIndexState(ps).index

-----------------------------------------------------------------------------
(* resolver.py: fuzzy_match *)

\* The ratio of the normalized name with every key: <<k, ratio>> for the
\* k-th key (line 114).
Ratios(normalized, idx) ==
    {<<k, ratio(normalized, idx[k].key)>> : k \in 1..Len(idx)}

\* The loop with ">=" on line 115: a later key of equal ratio is kept.
LeadsLast(p, q) ==
    IF q[1] > p[1] THEN RatioGreater(p[2], q[2]) ELSE ~RatioGreater(q[2], p[2])

\* The loop of lines 113-117 keeps p rather than q: an earlier key is kept
\* unless the later ratio is greater (line 115 is strict).
Leads(p, q) ==
    IF q[1] < p[1] THEN RatioGreater(p[2], q[2]) ELSE ~RatioGreater(q[2], p[2])

\* best_ratio and best_id after the loop of lines 110-117: those of the first
\* key of greatest ratio, when that ratio is above the initial 0.0.
Best(idx, ratios) ==
    LET lead == {p \in ratios :
                    RatioGreater(p[2], <<0, 1>>) /\ \A q \in ratios : Leads(p, q)}
    IN  IF lead = {} THEN [ratio |-> <<0, 1>>, id |-> None]
        ELSE [ratio |-> (CHOOSE p \in lead : TRUE)[2],
              id    |-> idx[(CHOOSE p \in lead : TRUE)[1]].value]

BestMatch(normalized, idx) == Best(idx, Ratios(normalized, idx))

\* The best match whatever its ratio: lines 117-121 without the threshold.
AboveThresholdUnchecked(best, t) == best.id

\* Lines 110-121.
AboveThreshold(best, t) == IF RatioAtLeast(best.ratio, t) THEN best.id ELSE None

\* Lines 106-121 for the normalized name.
MatchNormalized(normalized, idx, t) ==
    IF is_abbreviated(normalized) THEN None
    ELSE AboveThreshold(BestMatch(normalized, idx), t)

\* A fuzzy_match that finds nobody.
fuzzy_match_nobody(n, idx, t) == None

fuzzy_match(n, idx, t) == MatchNormalized(normalize_name(n), idx, t)

-----------------------------------------------------------------------------
(* resolver.py: resolve_authors *)

Range(q) == {q[i] : i \in 1..Len(q)}

\* Lines 155-162: the fuzzy match and the unresolved case.  The outcome for
\* one author: the author as the loop leaves it, and whether its name went
\* into the unresolved set.
FuzzyOutcome(author, person_id) ==
    IF Truthy(person_id)
    THEN [author |-> [author EXCEPT !.person_id = person_id], unresolved |-> FALSE]
    ELSE [author |-> author, unresolved |-> TRUE]

\* Lines 155-162 alone: the loop body without the exact match of lines 150-153.
MatchOutcomeFuzzyOnly(author, normalized, idx, fuzzy_threshold) ==
    FuzzyOutcome(author, fuzzy_match(author.name, idx, fuzzy_threshold))

\* The loop body with the exact match storing the key, not the id under it.
MatchOutcomeKey(author, normalized, idx, fuzzy_threshold) ==
    IF HasKey(idx, normalized)
    THEN [author |-> [author EXCEPT !.person_id = normalized], unresolved |-> FALSE]
    ELSE FuzzyOutcome(author, fuzzy_match(author.name, idx, fuzzy_threshold))

\* Lines 150-162 for the normalized name.
MatchOutcome(author, normalized, idx, fuzzy_threshold) ==
    IF HasKey(idx, normalized)
    THEN [author |-> [author EXCEPT !.person_id = Get(idx, normalized)],
          unresolved |-> FALSE]
    ELSE FuzzyOutcome(author, fuzzy_match(author.name, idx, fuzzy_threshold))

\* The body of the loop with the normalized name stored on the author.
ResolveAuthorRenaming(author, idx, fuzzy_threshold) ==
    [MatchOutcome(author, normalize_name(author.name), idx, fuzzy_threshold)
        EXCEPT !.author.name = normalize_name(author.name)]

\* The body of the loop over pub.authors (lines 148-162).
ResolveAuthor(author, idx, fuzzy_threshold) ==
    MatchOutcome(author, normalize_name(author.name), idx, fuzzy_threshold)

\* The loop of line 147 over the authors of one publication: their outcomes.
RECURSIVE ResolveAuthorsOf(_, _, _)
ResolveAuthorsOf(authors, idx, fuzzy_threshold) ==
    IF authors = <<>> THEN <<>>
    ELSE <<ResolveAuthor(Head(authors), idx, fuzzy_threshold)>>
         \o ResolveAuthorsOf(Tail(authors), idx, fuzzy_threshold)

\* The loop of line 146 over the publications: the outcome of every author.
RECURSIVE ResolveAll(_, _, _)
ResolveAll(pubs, idx, fuzzy_threshold) ==
    IF pubs = <<>> THEN <<>>
    ELSE <<ResolveAuthorsOf(Head(pubs).authors, idx, fuzzy_threshold)>>
         \o ResolveAll(Tail(pubs), idx, fuzzy_threshold)

\* The publications as mutated and sorted(unresolved), from the outcomes.
Resolved(pubs, outcomes) ==
    [publications |->
        [i \in 1..Len(pubs) |->
            [pubs[i] EXCEPT !.authors =
                [j \in 1..Len(pubs[i].authors) |-> outcomes[i][j].author]]],
     returned |->
        sorted(UNION {{outcomes[i][j].author.name :
                          j \in {k \in 1..Len(pubs[i].authors) : outcomes[i][k].unresolved}} :
                      i \in 1..Len(pubs)})]

\* Lines 143-164 alone: resolve_authors without the return of lines 140-141.
resolve_authors_unguarded(pubs, ps, fuzzy_threshold) ==
    Resolved(pubs, ResolveAll(pubs, build_alias_index(ps), fuzzy_threshold))

\* resolve_authors: the publications as mutated and the list returned.
resolve_authors(pubs, ps, fuzzy_threshold) ==
    IF ps = <<>>
    THEN [publications |-> pubs, returned |-> <<>>]
    ELSE Resolved(pubs, ResolveAll(pubs, build_alias_index(ps), fuzzy_threshold))

-----------------------------------------------------------------------------
(* resolver.py: resolve_projects *)

\* resolve_projects without the test against known_ids (line 182).
resolve_projects_referenced(pubs, projs) ==
    sorted(UNION {Range(pubs[i].project_ids) : i \in 1..Len(pubs)})

resolve_projects(pubs, projs) ==
    LET known_ids == {projs[i].id : i \in 1..Len(projs)}
        unknown   == UNION {{pid \in Range(pubs[i].project_ids) : pid \notin known_ids} :
                            i \in 1..Len(pubs)}
    IN  sorted(unknown)

-----------------------------------------------------------------------------
(* resolver.py: compute_backlinks *)

\* {x.id: x for x in xs}[id]: the position of the last element with that id,
\* 0 when the dict has no such key.
ById(xs, id) ==
    IF \E i \in 1..Len(xs) : xs[i].id = id
    THEN CHOOSE i \in 1..Len(xs) :
            xs[i].id = id /\ \A j \in (i + 1)..Len(xs) : xs[j].id # id
    ELSE 0

\* x.publication_ids.append(bib_id) without the test of membership.
AppendAlways(xs, i, bib_id) == [xs EXCEPT ![i].publication_ids = Append(@, bib_id)]

\* if bib_id not in x.publication_ids: x.publication_ids.append(bib_id)
AppendIfAbsent(xs, i, bib_id) ==
    IF bib_id \notin Range(xs[i].publication_ids)
    THEN [xs EXCEPT ![i].publication_ids = Append(@, bib_id)]
    ELSE xs

\* Lines 200-204 for the authors of one publication, in order.
RECURSIVE BacklinkPeople(_, _, _)
BacklinkPeople(ps, authors, bib_id) ==
    IF authors = <<>> THEN ps
    ELSE LET person_id == Head(authors).person_id
             linked == IF Truthy(person_id) /\ ById(ps, person_id) # 0
                       THEN AppendIfAbsent(ps, ById(ps, person_id), bib_id)
                       ELSE ps
         IN  BacklinkPeople(linked, Tail(authors), bib_id)

\* Lines 207-211 with an id that is no key of projects_by_id linked to the
\* last project.
RECURSIVE BacklinkProjectsUnknown(_, _, _)
BacklinkProjectsUnknown(projs, pids, bib_id) ==
    IF pids = <<>> THEN projs
    ELSE LET at == IF ById(projs, Head(pids)) # 0 THEN ById(projs, Head(pids))
                   ELSE Len(projs)
             linked == IF at # 0 THEN AppendIfAbsent(projs, at, bib_id) ELSE projs
         IN  BacklinkProjectsUnknown(linked, Tail(pids), bib_id)

\* Lines 207-211 for the project ids of one publication, in order.
RECURSIVE BacklinkProjects(_, _, _)
BacklinkProjects(projs, pids, bib_id) ==
    IF pids = <<>> THEN projs
    ELSE LET linked == IF ById(projs, Head(pids)) # 0
                       THEN AppendIfAbsent(projs, ById(projs, Head(pids)), bib_id)
                       ELSE projs
         IN  BacklinkProjects(linked, Tail(pids), bib_id)

\* The loop over data.publications (lines 198-211).
RECURSIVE BacklinkPublications(_, _)
BacklinkPublications(d, pubs) ==
    IF pubs = <<>> THEN d
    ELSE BacklinkPublications(
            [people   |-> BacklinkPeople(d.people, Head(pubs).authors, Head(pubs).bib_id),
             projects |-> BacklinkProjects(d.projects, Head(pubs).project_ids,
                                           Head(pubs).bib_id)],
            Tail(pubs))

\* next((p for p in data.publications if p.bib_id == pub_id), None): the
\* position of the first publication with that bib_id, 0 for None.
FirstPublication(pubs, pub_id) ==
    IF \E i \in 1..Len(pubs) : pubs[i].bib_id = pub_id
    THEN CHOOSE i \in 1..Len(pubs) :
            pubs[i].bib_id = pub_id /\ \A j \in 1..(i - 1) : pubs[j].bib_id # pub_id
    ELSE 0

\* Lines 219-226 for one project.
InferPeople(project, pubs) ==
    LET people_set ==
            UNION {IF FirstPublication(pubs, pub_id) = 0 THEN {}
                   ELSE {a.person_id :
                            a \in {b \in Range(pubs[FirstPublication(pubs, pub_id)].authors) :
                                      Truthy(b.person_id)}} :
                   pub_id \in Range(project.publication_ids)}
    IN  [project EXCEPT !.people_ids = sorted(people_set)]

\* compute_backlinks without the loop of lines 213-215.
compute_backlinks_uncounted(pubs, ps, projs) ==
    LET linked == BacklinkPublications([people |-> ps, projects |-> projs], pubs)
    IN  [people   |-> linked.people,
         projects |-> [i \in 1..Len(linked.projects) |->
                          InferPeople(linked.projects[i], pubs)]]

\* compute_backlinks: data.people and data.projects as mutated.
compute_backlinks(pubs, ps, projs) ==
    LET linked == BacklinkPublications([people |-> ps, projects |-> projs], pubs)
    IN  [people   |-> [i \in 1..Len(linked.people) |->
                          [linked.people[i] EXCEPT
                              !.publication_count = Len(linked.people[i].publication_ids)]],
         projects |-> [i \in 1..Len(linked.projects) |->
                          InferPeople(linked.projects[i], pubs)]]

-----------------------------------------------------------------------------
(* parsers/bibtex.py and loaders.py as assemble calls them.  A record of a  *)
(* source file is the dict of its fields, an absent field being None.        *)

\* str.replace(old, new).
RECURSIVE Replace(_, _, _)
Replace(s, old, new) ==
    IF s = "" THEN s
    ELSE LET at == Find(s, old)
         IN  IF at = 0 THEN s
             ELSE SubSeq(s, 1, at - 1) \o new
                  \o Replace(From(s, at + Len(old)), old, new)

\* str.split(): the maximal runs of characters that are not whitespace.
RECURSIVE split(_)
split(s) ==
    LET t == lstrip(s)
        spaces == {i \in 1..Len(t) : Ch(t, i) \in Whitespace}
        n == IF spaces = {} THEN Len(t) + 1
             ELSE CHOOSE i \in spaces : \A j \in spaces : i <= j
    IN  IF Len(t) = 0 THEN <<>>
        ELSE <<SubSeq(t, 1, n - 1)>> \o split(From(t, n))

\* sep.join(parts).
RECURSIVE join(_, _)
join(sep, parts) ==
    IF parts = <<>> THEN ""
    ELSE IF Len(parts) = 1 THEN parts[1]
    ELSE parts[1] \o sep \o join(sep, Tail(parts))

\* latex.py: entries of LATEX_ACCENTS of every kind of key, in the order of
\* the table, which is the order the loop of line 95 takes them in.  The
\* ligature U+0153, which a TLA+ string cannot hold, is written "<oe>".
LATEX_ACCENTS ==
    <<[latex |-> "\\'e", uni |-> "é"],
      [latex |-> "\\\"u", uni |-> "ü"],
      [latex |-> "\\~n", uni |-> "ñ"],
      [latex |-> "\\c{c}", uni |-> "ç"],
      [latex |-> "\\o", uni |-> "ø"],
      [latex |-> "\\ss", uni |-> "ß"],
      [latex |-> "\\oe", uni |-> "<oe>"]>>

\* The three replacements of one table entry.
ReplaceAccent(text, latex, uni) ==
    LET last == Ch(latex, Len(latex))
        braced == SubSeq(latex, 1, Len(latex) - 1) \o "{" \o last \o "}"
        whole == Replace(text, "{" \o latex \o "}", uni)
        inner == IF Len(latex) >= 2 /\ Find(UpperLetters \o LowerLetters, last) # 0
                 THEN Replace(whole, braced, uni) ELSE whole
    IN  Replace(inner, latex, uni)

RECURSIVE ReplaceAccents(_, _)
ReplaceAccents(text, table) ==
    IF text = "" \/ table = <<>> THEN text
    ELSE ReplaceAccents(ReplaceAccent(text, Head(table).latex, Head(table).uni),
                        Tail(table))

replace_latex_accents(text) == ReplaceAccents(text, LATEX_ACCENTS)

\* bibtexparser.customization.author, as line 43 calls it: the field is
\* split at " and " whatever the case, and every name that is not empty is
\* brought to the form "Last, First Middle".  The names of the model carry
\* no "jr" and no particle such as "van", which the library moves.
RECURSIVE SplitAnd(_)
SplitAnd(s) ==
    LET at == Find(lower(s), " and ")
    IN  IF at = 0 THEN <<s>>
        ELSE <<SubSeq(s, 1, at - 1)>> \o SplitAnd(From(s, at + 5))

RECURSIVE SpacedPeriods(_)
SpacedPeriods(parts) ==
    IF parts = <<>> THEN <<>>
    ELSE <<strip(Replace(Head(parts), ".", ". "))>> \o SpacedPeriods(Tail(parts))

LastFirst(namestring) ==
    LET comma == Find(namestring, ",")
        parts == split(namestring)
    IN  IF comma # 0
        THEN strip(SubSeq(namestring, 1, comma - 1)) \o ", "
                 \o join(" ", split(From(namestring, comma + 1)))
        ELSE parts[Len(parts)] \o ", "
                 \o join(" ", SpacedPeriods(SubSeq(parts, 1, Len(parts) - 1)))

RECURSIVE getnames(_)
getnames(names) ==
    IF names = <<>> THEN <<>>
    ELSE (IF Len(strip(Head(names))) < 1 THEN <<>>
          ELSE <<LastFirst(strip(Head(names)))>>)
         \o getnames(Tail(names))

RECURSIVE StripAll(_)
StripAll(names) ==
    IF names = <<>> THEN <<>> ELSE <<strip(Head(names))>> \o StripAll(Tail(names))

parse_author(raw_author_field) ==
    getnames(StripAll(SplitAnd(Replace(raw_author_field, "\n", " "))))

\* re.search(r'(.*?)\$?\^\{(.+?)\}\$?$', last), lines 72-75: the position of
\* the closing brace that ends the name, 0 when there is none.
SupClose(last) ==
    IF Len(last) >= 1 /\ Ch(last, Len(last)) = "}" THEN Len(last)
    ELSE IF Len(last) >= 2 /\ SubSeq(last, Len(last) - 1, Len(last)) = "}$"
    THEN Len(last) - 1
    ELSE 0

\* The position where group 2 starts for a group 1 of the given length, 0
\* when the superscript does not open there.
SupOpen(last, g) ==
    IF StartsWith(last, g + 1, "$^{") THEN g + 4
    ELSE IF StartsWith(last, g + 1, "^{") THEN g + 3
    ELSE 0

\* The lengths of group 1 for which the pattern matches.
SupMatches(last) ==
    {g \in 0..Len(last) :
        /\ SupOpen(last, g) # 0
        /\ SupOpen(last, g) <= SupClose(last) - 1
        /\ \A i \in 1..(SupClose(last) - 1) : Ch(last, i) # "\n"}

\* re.sub(r"\(.*?\)", "", first), line 80.
RECURSIVE RemoveParenthesized(_)
RemoveParenthesized(s) ==
    LET open == Find(s, "(")
        close == IF open = 0 THEN 0 ELSE Find(From(s, open + 1), ")")
        inside == SubSeq(s, open + 1, open + close - 1)
    IN  IF open = 0 \/ close = 0 THEN s
        ELSE IF Find(inside, "\n") # 0
        THEN SubSeq(s, 1, open) \o RemoveParenthesized(From(s, open + 1))
        ELSE SubSeq(s, 1, open - 1) \o RemoveParenthesized(From(s, open + close + 1))

RECURSIVE Initials(_)
Initials(parts) ==
    IF parts = <<>> THEN <<>>
    ELSE <<Ch(Head(parts), 1) \o ".">> \o Initials(Tail(parts))

\* _abbreviate_name for a name of type str, lines 54-85.
_abbreviate_name(n) ==
    LET accented == replace_latex_accents(n)
        comma == Find(accented, ",")
        last == replace_latex_accents(strip(SubSeq(accented, 1, comma - 1)))
        first == replace_latex_accents(strip(From(accented, comma + 1)))
        g == IF SupMatches(last) = {} THEN Len(last)
             ELSE CHOOSE i \in SupMatches(last) : \A j \in SupMatches(last) : i <= j
        sup == IF SupMatches(last) = {} THEN ""
               ELSE "<sup>" \o SubSeq(last, SupOpen(last, g), SupClose(last) - 1)
                        \o "</sup>"
        initials == join(" ", Initials(split(strip(RemoveParenthesized(first)))))
    IN  IF comma = 0 THEN accented
        ELSE strip(initials \o " " \o SubSeq(last, 1, g) \o sup)

\* Authors created with their own name as person_id.
RECURSIVE AbbreviateAllIdentified(_)
AbbreviateAllIdentified(name_list) ==
    IF name_list = <<>> THEN <<>>
    ELSE <<[name |-> _abbreviate_name(Head(name_list)),
            person_id |-> _abbreviate_name(Head(name_list))]>>
         \o AbbreviateAllIdentified(Tail(name_list))

RECURSIVE AbbreviateAll(_)
AbbreviateAll(name_list) ==
    IF name_list = <<>> THEN <<>>
    ELSE <<[name |-> _abbreviate_name(Head(name_list)), person_id |-> None]>>
         \o AbbreviateAll(Tail(name_list))

\* parse_author_list, lines 32-51.
parse_author_list(raw_author_field) ==
    IF ~Truthy(raw_author_field) \/ Len(strip(raw_author_field)) = 0 THEN <<>>
    ELSE AbbreviateAll(parse_author(raw_author_field))

\* int(x) for a str x: surrounding whitespace and one sign are allowed, the
\* rest is decimal digits with single underscores between them; anything
\* else is a ValueError.
DecimalDigits == "0123456789"

IsDigit(c) == Find(DecimalDigits, c) # 0

Unsigned(s) == IF Len(s) > 0 /\ Ch(s, 1) \in {"+", "-"} THEN From(s, 2) ELSE s

IsDecimal(s) ==
    /\ Len(s) > 0
    /\ \A i \in 1..Len(s) :
          \/ IsDigit(Ch(s, i))
          \/ /\ Ch(s, i) = "_"
             /\ 1 < i /\ i < Len(s)
             /\ IsDigit(Ch(s, i - 1)) /\ IsDigit(Ch(s, i + 1))

IntRaises(x) == ~IsDecimal(Unsigned(strip(x)))

RECURSIVE DecimalValue(_, _)
DecimalValue(s, acc) ==
    IF Len(s) = 0 THEN acc
    ELSE IF Ch(s, 1) = "_" THEN DecimalValue(From(s, 2), acc)
    ELSE DecimalValue(From(s, 2), 10 * acc + Find(DecimalDigits, Ch(s, 1)) - 1)

int(x) ==
    LET t == strip(x)
    IN  IF Len(t) > 0 /\ Ch(t, 1) = "-" THEN 0 - DecimalValue(From(t, 2), 0)
        ELSE DecimalValue(Unsigned(t), 0)

\* latex.py, latex_to_markdown.  The first match of  open(.*?)close  in
\* text as re.sub finds it: <<position of open, position of close>>, and
\* <<0, 0>> when there is none.  '.' matches no newline.
FirstMatch(text, open, close) ==
    LET ends(i) == {j \in (i + Len(open))..Len(text) :
                       /\ StartsWith(text, j, close)
                       /\ Find(SubSeq(text, i + Len(open), j - 1), "\n") = 0}
        starts == {i \in 1..Len(text) : StartsWith(text, i, open) /\ ends(i) # {}}
    IN  IF starts = {} THEN <<0, 0>>
        ELSE LET i == CHOOSE x \in starts : \A y \in starts : x <= y
             IN  <<i, CHOOSE x \in ends(i) : \A y \in ends(i) : x <= y>>

\* str(n) of a natural number.
RECURSIVE str(_)
str(n) ==
    IF n < 10 THEN Ch(DecimalDigits, n + 1)
    ELSE str(n \div 10) \o Ch(DecimalDigits, (n % 10) + 1)

\* re.sub(r'\$(.*?)\$', protect_math, text), lines 124-130: the text with
\* the placeholders and the math_blocks list.
RECURSIVE ProtectMath(_, _)
ProtectMath(text, math_blocks) ==
    LET m == IF text = "" THEN <<0, 0>> ELSE FirstMatch(text, "$", "$")
    IN  IF m[1] = 0 THEN [text |-> text, math_blocks |-> math_blocks]
        ELSE LET rest == ProtectMath(From(text, m[2] + 1),
                             Append(math_blocks, SubSeq(text, m[1] + 1, m[2] - 1)))
             IN  [text |-> SubSeq(text, 1, m[1] - 1) \o "__MATH"
                              \o str(Len(math_blocks)) \o "__" \o rest.text,
                  math_blocks |-> rest.math_blocks]

\* re.sub of  command\{(.*?)\}  by  left \1 right  (lines 136, 138, 139,
\* 144 and 145).
RECURSIVE SubBraced(_, _, _, _)
SubBraced(text, command, left, right) ==
    LET m == IF text = "" THEN <<0, 0>> ELSE FirstMatch(text, command \o "{", "}")
    IN  IF m[1] = 0 THEN text
        ELSE SubSeq(text, 1, m[1] - 1) \o left
             \o SubSeq(text, m[1] + Len(command) + 1, m[2] - 1) \o right
             \o SubBraced(From(text, m[2] + 1), command, left, right)

\* re.sub(r'\\textbf\s*', '', text), line 137.
RECURSIVE RemoveOrphaned(_)
RemoveOrphaned(text) ==
    LET at == IF text = "" THEN 0 ELSE Find(text, "\\textbf")
    IN  IF at = 0 THEN text
        ELSE SubSeq(text, 1, at - 1) \o RemoveOrphaned(lstrip(From(text, at + 7)))

\* The first match of  \\href\{(.*?)\}\{(.*?)\}  : the positions of \href,
\* of the "}{" that ends the shortest first group, and of the closing brace.
HrefMatch(text) ==
    LET mids(i) == {p \in (i + 6)..Len(text) :
                       /\ StartsWith(text, p, "}{")
                       /\ Find(SubSeq(text, i + 6, p - 1), "\n") = 0}
        ends(p) == {q \in (p + 2)..Len(text) :
                       /\ Ch(text, q) = "}"
                       /\ Find(SubSeq(text, p + 2, q - 1), "\n") = 0}
        full(i) == {p \in mids(i) : ends(p) # {}}
        starts == {i \in 1..Len(text) : StartsWith(text, i, "\\href{") /\ full(i) # {}}
    IN  IF starts = {} THEN <<0, 0, 0>>
        ELSE LET i == CHOOSE x \in starts : \A y \in starts : x <= y
                 p == CHOOSE x \in full(i) : \A y \in full(i) : x <= y
             IN  <<i, p, CHOOSE x \in ends(p) : \A y \in ends(p) : x <= y>>

\* re.sub(r'\\href\{(.*?)\}\{(.*?)\}', r'[\2](\1)', text), line 140.
RECURSIVE SubHref(_)
SubHref(text) ==
    LET m == IF text = "" THEN <<0, 0, 0>> ELSE HrefMatch(text)
    IN  IF m[1] = 0 THEN text
        ELSE SubSeq(text, 1, m[1] - 1) \o "[" \o SubSeq(text, m[2] + 2, m[3] - 1)
             \o "](" \o SubSeq(text, m[1] + 6, m[2] - 1) \o ")"
             \o SubHref(From(text, m[3] + 1))

\* re.sub(r'\\href\{(.*?)\}', r'[\1](\1)', text), line 141.
RECURSIVE SubHrefOnly(_)
SubHrefOnly(text) ==
    LET m == IF text = "" THEN <<0, 0>> ELSE FirstMatch(text, "\\href{", "}")
    IN  IF m[1] = 0 THEN text
        ELSE SubSeq(text, 1, m[1] - 1) \o "[" \o SubSeq(text, m[1] + 6, m[2] - 1)
             \o "](" \o SubSeq(text, m[1] + 6, m[2] - 1) \o ")"
             \o SubHrefOnly(From(text, m[2] + 1))

\* The first match of  __MATH(\d+)__  : the position of the placeholder and
\* the number of its digits, <<0, 0>> when there is none.
PlaceholderMatch(text) ==
    LET digits(i) == Cardinality({k \in (i + 6)..Len(text) :
                                     \A l \in (i + 6)..k : IsDigit(Ch(text, l))})
        starts == {i \in 1..Len(text) :
                      /\ StartsWith(text, i, "__MATH")
                      /\ digits(i) > 0
                      /\ StartsWith(text, i + 6 + digits(i), "__")}
    IN  IF starts = {} THEN <<0, 0>>
        ELSE LET i == CHOOSE x \in starts : \A y \in starts : x <= y
             IN  <<i, digits(i)>>

\* math_blocks[int(m.group(1))] of restore_math raises IndexError.
RECURSIVE RestoreRaises(_, _)
RestoreRaises(text, math_blocks) ==
    LET m == IF text = "" THEN <<0, 0>> ELSE PlaceholderMatch(text)
    IN  /\ m[1] # 0
        /\ \/ int(SubSeq(text, m[1] + 6, m[1] + 5 + m[2])) >= Len(math_blocks)
           \/ RestoreRaises(From(text, m[1] + 8 + m[2]), math_blocks)

\* re.sub(r'__MATH(\d+)__', restore_math, text), lines 151-154.
RECURSIVE RestoreMath(_, _)
RestoreMath(text, math_blocks) ==
    LET m == IF text = "" THEN <<0, 0>> ELSE PlaceholderMatch(text)
    IN  IF m[1] = 0 THEN text
        ELSE SubSeq(text, 1, m[1] - 1) \o "$"
             \o math_blocks[int(SubSeq(text, m[1] + 6, m[1] + 5 + m[2])) + 1] \o "$"
             \o RestoreMath(From(text, m[1] + 8 + m[2]), math_blocks)

\* Lines 136-148: the rewrites of the formatting commands, of the scripts
\* and of the braces, in the order of the statements.
Rewrites ==
    <<[sub |-> "braced", command |-> "\\textbf", left |-> "**", right |-> "**"],
      [sub |-> "orphaned"],
      [sub |-> "braced", command |-> "\\emph", left |-> "*", right |-> "*"],
      [sub |-> "braced", command |-> "\\textit", left |-> "*", right |-> "*"],
      [sub |-> "href"],
      [sub |-> "href only"],
      [sub |-> "braced", command |-> "^", left |-> "<sup>", right |-> "</sup>"],
      [sub |-> "braced", command |-> "_", left |-> "<sub>", right |-> "</sub>"],
      [sub |-> "replace", old |-> "{", new |-> ""],
      [sub |-> "replace", old |-> "}", new |-> ""]>>

\* One statement  text = re.sub(...)  or  text = text.replace(...).
Rewrite(text, r) ==
    CASE r.sub = "braced" -> SubBraced(text, r.command, r.left, r.right)
      [] r.sub = "orphaned" -> RemoveOrphaned(text)
      [] r.sub = "href" -> SubHref(text)
      [] r.sub = "href only" -> SubHrefOnly(text)
      [] r.sub = "replace" -> Replace(text, r.old, r.new)

RECURSIVE RewriteAll(_, _)
RewriteAll(text, rewrites) ==
    IF text = "" \/ rewrites = <<>> THEN text
    ELSE RewriteAll(Rewrite(text, Head(rewrites)), Tail(rewrites))

Formatted(text) == RewriteAll(text, Rewrites)

\* Lines 132-148, between protection and restoration.
Rewritten(protected) ==
    [protected EXCEPT !.text = Formatted(replace_latex_accents(protected.text))]

\* format_authors_string without the comma before "and".
format_authors_string_no_comma(authors) ==
    LET names == [i \in 1..Len(authors) |-> authors[i].name]
    IN  IF Len(names) <= 2 THEN join(" and ", names)
        ELSE join(", ", SubSeq(names, 1, Len(names) - 1)) \o " and "
             \o names[Len(names)]

\* format_authors_string, lines 88-96.
format_authors_string(authors) ==
    LET names == [i \in 1..Len(authors) |-> authors[i].name]
    IN  IF Len(names) <= 2 THEN join(" and ", names)
        ELSE join(", ", SubSeq(names, 1, Len(names) - 1)) \o ", and "
             \o names[Len(names)]

\* entry.get(key, default): an absent field of a record is None here.
GetField(field, default) == IF field = None THEN default ELSE field

\* str.strip(chars): the characters of chars removed from both ends.
RECURSIVE StripOf(_, _)
StripOf(s, chars) ==
    IF Len(s) > 0 /\ Ch(s, 1) \in chars THEN StripOf(From(s, 2), chars)
    ELSE IF Len(s) > 0 /\ Ch(s, Len(s)) \in chars
    THEN StripOf(SubSeq(s, 1, Len(s) - 1), chars)
    ELSE s

\* str.split(sep): the parts between the occurrences of sep, empty ones kept.
RECURSIVE SplitOn(_, _)
SplitOn(s, sep) ==
    LET at == Find(s, sep)
    IN  IF at = 0 THEN <<s>>
        ELSE <<SubSeq(s, 1, at - 1)>> \o SplitOn(From(s, at + Len(sep)), sep)

\* parse_project_ids with the empty tokens kept.
parse_project_ids_unfiltered(entry) ==
    LET project_field == strip(GetField(entry.project, ""))
    IN  IF ~Truthy(project_field) THEN <<>>
        ELSE StripAll(SplitOn(StripOf(project_field, {"{", "}"}), ","))

\* parse_project_ids, lines 178-184.
parse_project_ids(entry) ==
    LET project_field == strip(GetField(entry.project, ""))
    IN  IF ~Truthy(project_field) THEN <<>>
        ELSE SelectSeq(StripAll(SplitOn(StripOf(project_field, {"{", "}"}), ",")),
                       Truthy)

\* extract_video_url, lines 149-154.
VideoHosts == {"youtube.com", "youtu.be", "vimeo.com"}

extract_video_url(entry) ==
    LET url == GetField(entry.url, "")
    IN  IF Truthy(url) /\ \E p \in VideoHosts : Find(url, p) # 0 THEN url ELSE None

\* url=url if url else None: line 225 without the test of video_url, and
\* without the assignment of line 210.
GenericUrlKept(url, video_url) == IF Truthy(url) THEN url ELSE None

\* Lines 209-210 and 225: the url field of the Publication.
GenericUrl(url, video_url) ==
    LET reassigned == IF Truthy(video_url) THEN None ELSE url
    IN  IF Truthy(reassigned) /\ ~Truthy(video_url) THEN reassigned ELSE None

\* int(entry.get("year", 0)) raises for a year field that is no integer.
EntryRaises(entry) == entry.year # None /\ IntRaises(entry.year)

\* The Publication built from a record for which line 216 does not raise.
entry_to_publication(entry, category) ==
    [bib_id      |-> entry.ID,
     authors     |-> parse_author_list(GetField(entry.author, "")),
     year        |-> IF entry.year = None THEN 0 ELSE int(entry.year),
     category    |-> category,
     url         |-> GenericUrl(GetField(entry.url, ""), extract_video_url(entry)),
     video_url   |-> extract_video_url(entry),
     project_ids |-> parse_project_ids(entry)]

\* A sort by year descending that puts a publication before those of its
\* year already placed.
RECURSIVE SortByYearDescendingUnstable(_, _)
SortByYearDescendingUnstable(placed, rest) ==
    IF rest = <<>> THEN placed
    ELSE LET p == Head(rest)
             n == Cardinality({i \in 1..Len(placed) : placed[i].year > p.year})
         IN  SortByYearDescendingUnstable(
                 SubSeq(placed, 1, n) \o <<p>> \o SubSeq(placed, n + 1, Len(placed)),
                 Tail(rest))

\* list.sort(key=lambda p: p.year, reverse=True): stable, so a publication
\* goes after every publication already placed whose year is not smaller.
RECURSIVE SortByYearDescending(_, _)
SortByYearDescending(placed, rest) ==
    IF rest = <<>> THEN placed
    ELSE LET p == Head(rest)
             n == Cardinality({i \in 1..Len(placed) : placed[i].year >= p.year})
         IN  SortByYearDescending(
                 SubSeq(placed, 1, n) \o <<p>> \o SubSeq(placed, n + 1, Len(placed)),
                 Tail(rest))

RECURSIVE ParseFiles(_)
ParseFiles(bib_files) ==
    IF bib_files = <<>> THEN <<>>
    ELSE [i \in 1..Len(Head(bib_files).entries) |->
             entry_to_publication(Head(bib_files).entries[i], Head(bib_files).category)]
         \o ParseFiles(Tail(bib_files))

\* Only the first configured file is looked at for a failure.
ParseRaisesFirst(bib_files) ==
    /\ bib_files # <<>>
    /\ \/ ~Head(bib_files).exists
       \/ ~Head(bib_files).parses
       \/ \E j \in 1..Len(Head(bib_files).entries) :
              EntryRaises(Head(bib_files).entries[j])

\* parse_bibtex_file raises for a file that cannot be opened (line 26) or
\* that bibtexparser.load rejects (line 28), entry_to_publication for a year
\* that is no integer; nothing in parse_all_publications catches either.
ParseRaises(bib_files) ==
    \E i \in 1..Len(bib_files) :
        \/ ~bib_files[i].exists
        \/ ~bib_files[i].parses
        \/ \E j \in 1..Len(bib_files[i].entries) : EntryRaises(bib_files[i].entries[j])

parse_all_publications(bib_files) == SortByYearDescending(<<>>, ParseFiles(bib_files))

load_people(file) ==
    IF ~file.exists THEN <<>>
    ELSE [i \in 1..Len(file.records) |->
             [id                |-> file.records[i].id,
              name              |-> file.records[i].name,
              aliases           |-> file.records[i].aliases,
              publication_count |-> 0,
              publication_ids   |-> <<>>]]

load_projects(file) ==
    IF ~file.exists THEN <<>>
    ELSE [i \in 1..Len(file.records) |->
             [id              |-> file.records[i].id,
              publication_ids |-> <<>>,
              people_ids      |-> <<>>]]

-----------------------------------------------------------------------------
(* assembler.py: collaborator aggregation (lines 60-73) *)

\* collab_counts and collab_years after one author, without the test of
\* line 65.
CountAuthorEvery(st, author, year) ==
    [counts |-> Put(st.counts, author.name,
                    (IF HasKey(st.counts, author.name)
                     THEN Get(st.counts, author.name) ELSE 0) + 1),
     years  |-> Put(st.years, author.name,
                    LET seen == IF HasKey(st.years, author.name)
                                THEN Get(st.years, author.name) ELSE 0
                    IN  IF seen >= year THEN seen ELSE year)]

\* collab_counts and collab_years after one author.
CountAuthor(st, author, year) ==
    IF author.person_id = None
    THEN [counts |-> Put(st.counts, author.name,
                         (IF HasKey(st.counts, author.name)
                          THEN Get(st.counts, author.name) ELSE 0) + 1),
          years  |-> Put(st.years, author.name,
                         LET seen == IF HasKey(st.years, author.name)
                                     THEN Get(st.years, author.name) ELSE 0
                         IN  IF seen >= year THEN seen ELSE year)]
    ELSE st

RECURSIVE CountAuthors(_, _, _)
CountAuthors(st, authors, year) ==
    IF authors = <<>> THEN st
    ELSE CountAuthors(CountAuthor(st, Head(authors), year), Tail(authors), year)

RECURSIVE CountPublications(_, _)
CountPublications(st, pubs) ==
    IF pubs = <<>> THEN st
    ELSE CountPublications(CountAuthors(st, Head(pubs).authors, Head(pubs).year),
                           Tail(pubs))

\* key=lambda c: (-c.last_year, -c.publication_count): the name left out.
CollaboratorKeyLessUnnamed(c, d) ==
    \/ c.last_year > d.last_year
    \/ /\ c.last_year = d.last_year
       /\ c.publication_count > d.publication_count

\* key=lambda c: (-c.last_year, -c.publication_count, c.name)
CollaboratorKeyLess(c, d) ==
    \/ c.last_year > d.last_year
    \/ /\ c.last_year = d.last_year
       /\ \/ c.publication_count > d.publication_count
          \/ /\ c.publication_count = d.publication_count
             /\ StrLess(c.name, d.name)

\* sorted(..., key=...): stable, so an element goes after every element
\* already placed whose key is not greater.
RECURSIVE SortCollaborators(_, _)
SortCollaborators(placed, rest) ==
    IF rest = <<>> THEN placed
    ELSE LET c == Head(rest)
             n == Cardinality({i \in 1..Len(placed) : ~CollaboratorKeyLess(c, placed[i])})
         IN  SortCollaborators(
                 SubSeq(placed, 1, n) \o <<c>> \o SubSeq(placed, n + 1, Len(placed)),
                 Tail(rest))

aggregate_collaborators(pubs) ==
    LET st == CountPublications([counts |-> <<>>, years |-> <<>>], pubs)
    IN  SortCollaborators(<<>>,
            [i \in 1..Len(st.counts) |->
                [name              |-> st.counts[i].key,
                 publication_count |-> st.counts[i].value,
                 last_year         |-> Get(st.years, st.counts[i].key)]])

-----------------------------------------------------------------------------
(* Inputs *)

MaxFiles     == 2   \* configured source files
MaxPeople    == 2   \* people of a roster
MaxPubs      == 2   \* publications handed to the resolver
MaxProjects  == 2   \* projects of a data set
MaxIndexKeys == 2   \* keys of an alias index handed to fuzzy_match

\* Sequences of at most n elements of S.
SeqUpTo(S, n) == UNION {[1..k -> S] : k \in 0..n}

\* A value for a variable the running operation does not use.
Unused == "<unused>"

\* Records of source files.
Entries ==
    [smith2024  |-> [ID |-> "smith2024robot", year |-> "2024",
                     author |-> "Smith, J. and Jones, E. E.",
                     url |-> "https://youtu.be/abc",
                     project |-> "robotfeeding"],
     smith2023  |-> [ID |-> "smith2023grasp", year |-> "2023",
                     author |-> "John A. Smith",
                     url |-> None,
                     project |-> "{nonexistent, robotfeeding}"],
     duplicate  |-> [ID |-> "smith2024robot", year |-> "2024",
                     author |-> "Doe, Jane",
                     url |-> "https://example.org/paper",
                     project |-> " mobility "],
     jones2023  |-> [ID |-> "jones2023preprint", year |-> "2023",
                     author |-> "E. E. Jones and John Smith",
                     url |-> None,
                     project |-> None],
     zhang2022  |-> [ID |-> "zhang2022planning", year |-> "2022",
                     author |-> "Zhang, Hao and Zhang, Hong",
                     url |-> None,
                     project |-> None],
     doe2023    |-> [ID |-> "doe2023survey", year |-> " 2023 ",
                     author |-> "Doe, Jane",
                     url |-> "",
                     project |-> " mobility "],
     undated    |-> [ID |-> "doe-notes", year |-> None,
                     author |-> "Doe, Jane",
                     url |-> None,
                     project |-> None],
     inpress    |-> [ID |-> "smith-inpress", year |-> "in press",
                     author |-> "Smith, John",
                     url |-> None,
                     project |-> None],
     exact      |-> [ID |-> "smith2024feeding", year |-> "2024",
                     author |-> "Smith, John",
                     url |-> None,
                     project |-> "robotfeeding"],
     near       |-> [ID |-> "smith2023grasp", year |-> "2023",
                     author |-> "John A. Smith",
                     url |-> None,
                     project |-> None],
     external   |-> [ID |-> "external2022", year |-> "2022",
                     author |-> "Eve External",
                     url |-> None,
                     project |-> None]]

BibFiles ==
    {[name |-> "journal.bib", category |-> "Journal Papers", exists |-> TRUE, parses |-> TRUE,
      entries |-> <<Entries.smith2023, Entries.smith2024>>],
     [name |-> "conference.bib", category |-> "Conference Papers", exists |-> TRUE, parses |-> TRUE,
      entries |-> <<Entries.duplicate>>],
     [name |-> "preprints.bib", category |-> "Preprints", exists |-> TRUE, parses |-> TRUE,
      entries |-> <<Entries.jones2023, Entries.zhang2022>>],
     [name |-> "sample.bib", category |-> "Test Papers", exists |-> TRUE, parses |-> TRUE,
      entries |-> <<Entries.exact, Entries.near, Entries.external>>],
     [name |-> "empty.bib", category |-> "Other", exists |-> TRUE, parses |-> TRUE,
      entries |-> <<>>],
     [name |-> "missing.bib", category |-> "Other", exists |-> FALSE, parses |-> FALSE,
      entries |-> <<>>]}

Roster ==
    [jsmith   |-> [id |-> "jsmith", name |-> "John Smith", aliases |-> <<"J. Smith">>],
     jdoe     |-> [id |-> "jdoe", name |-> "Jane Doe", aliases |-> <<"J. Doe", "J. A. Doe">>],
     namesake |-> [id |-> "jsmith2", name |-> "John Smith", aliases |-> <<"Johnny Smith">>],
     initial  |-> [id |-> "jsmithers", name |-> "Jo Smithers", aliases |-> <<"J. Smith">>],
     again    |-> [id |-> "jsmith", name |-> "J Smith", aliases |-> <<>>],
     twice    |-> [id |-> "jsmyth", name |-> "Jo Smyth",
                   aliases |-> <<"J. Smith", "J Smith">>],
     named    |-> [id |-> "jsmythe", name |-> "J. Smith", aliases |-> <<"John Smith">>],
     swapped  |-> [id |-> "jdoe", name |-> "J. Doe", aliases |-> <<"Jane Doe">>]]

\* config.people_file: not configured, a path to no file, or a roster file.
PeopleFiles ==
    {[path |-> None, exists |-> FALSE, records |-> <<>>],
     [path |-> "nonexistent.yaml", exists |-> FALSE, records |-> <<>>],
     [path |-> "people.yaml", exists |-> TRUE, records |-> <<>>],
     [path |-> "people.yaml", exists |-> TRUE,
      records |-> <<Roster.jsmith, Roster.jdoe>>],
     [path |-> "people.yaml", exists |-> TRUE,
      records |-> <<Roster.jdoe, Roster.jsmith, Roster.namesake>>]}

ProjectsFiles ==
    {[path |-> None, exists |-> FALSE, records |-> <<>>],
     [path |-> "nonexistent.yaml", exists |-> FALSE, records |-> <<>>],
     [path |-> "projects.yaml", exists |-> TRUE,
      records |-> <<[id |-> "mobility"]>>],
     [path |-> "projects.yaml", exists |-> TRUE,
      records |-> <<[id |-> "robotfeeding"], [id |-> "mobility"]>>]}

Configs ==
    [bib_files     : SeqUpTo(BibFiles, MaxFiles),
     people_file   : PeopleFiles,
     projects_file : ProjectsFiles]

-----------------------------------------------------------------------------
(* assembler.py: assemble, one action per step *)

fuzzyVars == <<name, index, threshold, result>>

parserVars == <<entry_in, category_in, bib_files_in, text_in, authors_in>>

\* The arguments of the parser while another operation runs.
FormatIdle == text_in = Unused /\ authors_in = <<>>

ParserIdle ==
    entry_in = Unused /\ category_in = Unused /\ bib_files_in = <<>> /\ FormatIdle

AssembleInit ==
    /\ pc = "parse_all_publications"
    /\ config \in Configs
    /\ publications = <<>>
    /\ people = <<>>
    /\ projects = <<>>
    /\ unresolved_authors = <<>>
    /\ unknown_projects = <<>>
    /\ collaborators = <<>>
    /\ data = None
    /\ steps = <<>>
    /\ name = Unused /\ index = <<>> /\ threshold = 0 /\ result = Unused
    /\ ParserIdle

\* An order of the steps with the back-links computed before the resolution.
StepAfterBacklinksFirst(step) ==
    CASE step = "parse_all_publications" -> "load_people"
      [] step = "load_people"            -> "load_projects"
      [] step = "load_projects"          -> "LabData"
      [] step = "LabData"                -> "compute_backlinks"
      [] step = "compute_backlinks"      -> "resolve_authors"
      [] step = "resolve_authors"        -> "resolve_projects"
      [] step = "resolve_projects"       -> "collaborators"
      [] step = "collaborators"          -> "return"

\* The step that follows each step of assemble.
StepAfter(step) ==
    CASE step = "parse_all_publications" -> "load_people"
      [] step = "load_people"            -> "load_projects"
      [] step = "load_projects"          -> "resolve_authors"
      [] step = "resolve_authors"        -> "resolve_projects"
      [] step = "resolve_projects"       -> "collaborators"
      [] step = "collaborators"          -> "LabData"
      [] step = "LabData"                -> "compute_backlinks"
      [] step = "compute_backlinks"      -> "return"

Advance == pc' = StepAfter(pc) /\ steps' = Append(steps, pc)

\* Lines 45-50; the exception of a file that cannot be read leaves assemble.
ParsePublications ==
    /\ pc = "parse_all_publications"
    /\ \/ /\ ParseRaises(config.bib_files)
          /\ pc' = "raised"
          /\ UNCHANGED <<publications, steps>>
       \/ /\ ~ParseRaises(config.bib_files)
          /\ publications' = parse_all_publications(config.bib_files)
          /\ Advance
    /\ UNCHANGED <<config, people, projects, unresolved_authors, unknown_projects,
                   collaborators, data, fuzzyVars, parserVars>>

\* Line 53.
LoadPeople ==
    /\ pc = "load_people"
    /\ people' = IF Truthy(config.people_file.path)
                 THEN load_people(config.people_file) ELSE <<>>
    /\ Advance
    /\ UNCHANGED <<config, publications, projects, unresolved_authors,
                   unknown_projects, collaborators, data, fuzzyVars, parserVars>>

\* Line 54.
LoadProjects ==
    /\ pc = "load_projects"
    /\ projects' = IF Truthy(config.projects_file.path)
                   THEN load_projects(config.projects_file) ELSE <<>>
    /\ Advance
    /\ UNCHANGED <<config, publications, people, unresolved_authors,
                   unknown_projects, collaborators, data, fuzzyVars, parserVars>>

\* Line 57.
ResolveAuthors ==
    /\ pc = "resolve_authors"
    /\ \E r \in {resolve_authors(publications, people, FUZZY_THRESHOLD)} :
           /\ publications' = r.publications
           /\ unresolved_authors' = r.returned
    /\ Advance
    /\ UNCHANGED <<config, people, projects, unknown_projects, collaborators,
                   data, fuzzyVars, parserVars>>

\* Line 58.
ResolveProjects ==
    /\ pc = "resolve_projects"
    /\ unknown_projects' = resolve_projects(publications, projects)
    /\ Advance
    /\ UNCHANGED <<config, publications, people, projects, unresolved_authors,
                   collaborators, data, fuzzyVars, parserVars>>

\* Lines 60-73.
AggregateCollaborators ==
    /\ pc = "collaborators"
    /\ collaborators' = aggregate_collaborators(publications)
    /\ Advance
    /\ UNCHANGED <<config, publications, people, projects, unresolved_authors,
                   unknown_projects, data, fuzzyVars, parserVars>>

\* Lines 76-82: the LabData holds the lists themselves, not copies.
ConstructLabData ==
    /\ pc = "LabData"
    /\ data' = "LabData"
    /\ Advance
    /\ UNCHANGED <<config, publications, people, projects, unresolved_authors,
                   unknown_projects, collaborators, fuzzyVars, parserVars>>

\* Line 85.
ComputeBacklinks ==
    /\ pc = "compute_backlinks"
    /\ \E d \in {compute_backlinks(publications, people, projects)} :
           /\ people' = d.people
           /\ projects' = d.projects
    /\ Advance
    /\ UNCHANGED <<config, publications, unresolved_authors, unknown_projects,
                   collaborators, data, fuzzyVars, parserVars>>

Next ==
    \/ ParsePublications
    \/ LoadPeople
    \/ LoadProjects
    \/ ResolveAuthors
    \/ ResolveProjects
    \/ AggregateCollaborators
    \/ ConstructLabData
    \/ ComputeBacklinks

Spec == AssembleInit /\ [][Next]_vars

\* The authors of a list of publications.
AuthorsOf(pubs) == UNION {Range(pubs[i].authors) : i \in 1..Len(pubs)}

Ids(xs) == {xs[i].id : i \in 1..Len(xs)}

BibIds(pubs) == {pubs[i].bib_id : i \in 1..Len(pubs)}

\* Every entry of the publication_ids of every element is a bib_id of pubs.
BacklinksKnown(xs, pubs) ==
    \A i \in 1..Len(xs) : Range(xs[i].publication_ids) \subseteq BibIds(pubs)

AssembleOrder ==
    <<"parse_all_publications", "load_people", "load_projects", "resolve_authors",
      "resolve_projects", "collaborators", "LabData", "compute_backlinks">>

\* Every occurrence of the step comes after an occurrence of the earlier one.
Follows(history, step, earlier) ==
    \A i \in 1..Len(history) :
        history[i] = step => \E j \in 1..(i - 1) : history[j] = earlier

C7_EmptyRosterNoOp ==
    [][(pc = "resolve_authors" /\ people = <<>>) =>
          (unresolved_authors' = <<>> /\ publications' = publications)]_vars

\* resolve_authors has run on the publications of a source file with the
\* roster of a configured file that does not exist.
C7_Witness ==
    /\ pc = "resolve_projects"
    /\ config.people_file.path = "nonexistent.yaml"
    /\ people = <<>>
    /\ publications # <<>>
    /\ unresolved_authors = <<>>
    /\ \A a \in AuthorsOf(publications) : a.person_id = None

\* The non-null person_ids of the authors of every publication whose bib_id
\* is one of the project's publication_ids.
AuthorsOfProject(project, pubs) ==
    {a.person_id :
        a \in {b \in AuthorsOf(SelectSeq(pubs,
                        LAMBDA pub : pub.bib_id \in Range(project.publication_ids))) :
                  b.person_id # None}}

\* C2: after compute_backlinks the people_ids of each Project is the sorted
\* duplicate-free list of all non-null person_ids of the authors of every
\* Publication whose bib_id is in that Project's publication_ids.
C2_ProjectPeopleOfEveryPublication ==
    pc = "return" =>
        \A i \in 1..Len(projects) :
            projects[i].people_ids = sorted(AuthorsOfProject(projects[i], publications))

-----------------------------------------------------------------------------
(* resolver.py: fuzzy_match called on its own *)

assembleVars == <<config, publications, people, projects, unresolved_authors,
                  unknown_projects, collaborators, data, steps>>

\* The variables of assemble while another operation runs.
AssembleIdle ==
    /\ config = Unused
    /\ publications = <<>>
    /\ people = <<>>
    /\ projects = <<>>
    /\ unresolved_authors = <<>>
    /\ unknown_projects = <<>>
    /\ collaborators = <<>>
    /\ data = None
    /\ steps = <<>>

\* Author names as they stand in a byline.
FuzzyNames ==
    {"J. Smith", " J.  SMITH ", "J. Smith<sup>*</sup>", "John Smith",
     "John A. Smith", "Jon Smith", "J. Smith-Jones", "E. E. Jones", "José Doe",
     "Xu"}

IndexedNames == {"j smith", "j doe", "john smith", "johnny smith", "joan smith"}
PersonIds    == {"jsmith", "jdoe"}

\* An alias index: a dict of at most MaxIndexKeys normalized names.
Indexes ==
    {d \in SeqUpTo([key : IndexedNames, value : PersonIds], MaxIndexKeys) :
        \A i, j \in 1..Len(d) : i # j => d[i].key # d[j].key}

\* Thresholds in hundredths.
Thresholds == {0, 75, FUZZY_THRESHOLD, 100}

FuzzyInit ==
    /\ pc = "fuzzy_match"
    /\ name \in FuzzyNames
    /\ index \in Indexes
    /\ threshold \in Thresholds
    /\ result = Unused
    /\ AssembleIdle
    /\ ParserIdle

\* Lines 96-121.
FuzzyMatch ==
    /\ pc = "fuzzy_match"
    /\ result' = fuzzy_match(name, index, threshold)
    /\ pc' = "fuzzy_match returned"
    /\ UNCHANGED <<name, index, threshold, assembleVars, parserVars>>

NextFuzzy == FuzzyMatch

SpecFuzzy == FuzzyInit /\ [][NextFuzzy]_vars

\* One lowercase letter, one space, one word of lowercase letters.
InitialAndWord(s) ==
    LET lowercase == {Ch(LowerLetters, i) : i \in 1..Len(LowerLetters)}
    IN  /\ Len(s) >= 3
        /\ Ch(s, 1) \in lowercase
        /\ Ch(s, 2) = " "
        /\ \A i \in 3..Len(s) : Ch(s, i) \in lowercase

C9_ExactKeyReturned ==
    (/\ pc = "fuzzy_match returned"
     /\ threshold = FUZZY_THRESHOLD
     /\ HasKey(index, normalize_name(name)))
        => result = Get(index, normalize_name(name))

-----------------------------------------------------------------------------
(* resolver.py: resolve_authors called on its own *)

\* A Publication as a caller of resolve_authors builds it: no author
\* resolved.
Publication(bib_id, names, year, project_ids) ==
    [bib_id      |-> bib_id,
     authors     |-> [i \in 1..Len(names) |-> [name |-> names[i], person_id |-> None]],
     year        |-> year,
     category    |-> "Journal Papers",
     url         |-> None,
     video_url   |-> None,
     project_ids |-> project_ids]

\* Publications handed to resolve_authors, with bylines in full and
\* abbreviated.
ParsedPublications ==
    {Publication("smith2024robot", <<"J. Smith", "E. E. Jones">>, 2024,
                 <<"robotfeeding">>),
     Publication("smith2023grasp", <<"John A. Smith">>, 2023,
                 <<"nonexistent", "robotfeeding">>),
     Publication("smith2024robot", <<"J. Doe">>, 2024, <<"mobility">>),
     Publication("jones2023preprint", <<"E. E. Jones", "John Smith">>, 2023, <<>>)}

\* People as the loader leaves them.
LoadedPeople ==
    Range(load_people([path |-> "people.yaml", exists |-> TRUE,
                       records |-> <<Roster.jsmith, Roster.jdoe, Roster.namesake,
                                     Roster.initial>>]))

ResolveThresholds == {FUZZY_THRESHOLD, 95}

ResolveInit ==
    /\ pc = "call resolve_authors"
    /\ publications \in SeqUpTo(ParsedPublications, MaxPubs)
    /\ people \in SeqUpTo(LoadedPeople, MaxPeople)
    /\ threshold \in ResolveThresholds
    /\ unresolved_authors = <<>>
    /\ config = Unused
    /\ projects = <<>>
    /\ unknown_projects = <<>>
    /\ collaborators = <<>>
    /\ data = None
    /\ steps = <<>>
    /\ name = Unused /\ index = <<>> /\ result = Unused
    /\ ParserIdle

\* Lines 124-164.
CallResolveAuthors ==
    /\ pc = "call resolve_authors"
    /\ \E r \in {resolve_authors(publications, people, threshold)} :
           /\ publications' = r.publications
           /\ unresolved_authors' = r.returned
    /\ pc' = "resolve_authors returned"
    /\ UNCHANGED <<config, people, projects, unknown_projects, collaborators,
                   data, steps, name, index, threshold, result, parserVars>>

NextResolve == CallResolveAuthors

SpecResolve == ResolveInit /\ [][NextResolve]_vars

\* The person's canonical name or one of its aliases normalizes to the key.
Produces(person, key) ==
    \/ normalize_name(person.name) = key
    \/ \E i \in 1..Len(person.aliases) : normalize_name(person.aliases[i]) = key

\* Exactly the person at position p of the roster produces the key.
OnlyProducer(ps, p, key) ==
    /\ Produces(ps[p], key)
    /\ \A q \in 1..Len(ps) : q # p => ~Produces(ps[q], key)

\* C5: when the canonical name or an alias of a person P normalizes to the
\* author's key and no other person produces that key, resolve_authors sets
\* the author's person_id to P.id and the returned list does not hold the name.
C5_ExactMatchResolves ==
    pc = "resolve_authors returned" =>
        \A a \in AuthorsOf(publications) : \A p \in 1..Len(people) :
            OnlyProducer(people, p, normalize_name(a.name)) =>
                /\ a.person_id = people[p].id
                /\ a.name \notin Range(unresolved_authors)

\* resolve_authors has returned on a roster of two people where "J. Smith",
\* an abbreviated name, is an alias of one of them only, and that author
\* carries the id.
C5_Witness ==
    /\ pc = "resolve_authors returned"
    /\ Len(people) = 2
    /\ \E a \in AuthorsOf(publications) :
          /\ a.name = "J. Smith"
          /\ a.person_id = "jsmith"
          /\ \E p \in 1..Len(people) : OnlyProducer(people, p, normalize_name(a.name))

\* The number of times x stands in the list.
Count(list, x) == Cardinality({k \in 1..Len(list) : list[k] = x})

\* The normalized name is no key of the index and its similarity to every key
\* is below the threshold.
NoMatch(normalized, idx, t) ==
    /\ ~HasKey(idx, normalized)
    /\ \A k \in 1..Len(idx) : ~RatioAtLeast(ratio(normalized, idx[k].key), t)

\* Every author without a match keeps the null person_id and is listed once.
UnmatchedListedOnce(authors, idx, t, returned) ==
    \A a \in authors :
        NoMatch(normalize_name(a.name), idx, t) =>
            a.person_id = None /\ Count(returned, a.name) = 1

\* The list ascends strictly: it is sorted and holds no name twice.
StrictlyAscending(list) == \A k \in 1..(Len(list) - 1) : StrLess(list[k], list[k + 1])

\* C6: with a non-empty roster, an author whose normalized name is no key of
\* the alias index and whose similarity to every key is below the threshold
\* keeps a null person_id and has its display name exactly once in the
\* returned list; the returned list is sorted ascending and has no duplicates.
C6_UnresolvedListed ==
    pc = "resolve_authors returned" =>
        /\ people # <<>> =>
              UnmatchedListedOnce(AuthorsOf(publications), build_alias_index(people),
                                  threshold, unresolved_authors)
        /\ StrictlyAscending(unresolved_authors)

\* resolve_authors has returned two names, met in descending order and one of
\* them in both publications, for a roster whose index has keys.
C6_Witness ==
    /\ pc = "resolve_authors returned"
    /\ build_alias_index(people) # <<>>
    /\ Len(publications) = 2
    /\ publications[1].authors[1].name = "J. Smith"
    /\ \A i \in 1..2 : \E a \in Range(publications[i].authors) :
          /\ a.name = "E. E. Jones"
          /\ a.person_id = None
          /\ NoMatch(normalize_name(a.name), build_alias_index(people), threshold)
    /\ unresolved_authors = <<"E. E. Jones", "J. Smith">>

\* Two people of different ids produce the key.
AmbiguousKey(ps, key) ==
    \E p, q \in 1..Len(ps) :
        ps[p].id # ps[q].id /\ Produces(ps[p], key) /\ Produces(ps[q], key)

\* C10: an author whose normalized name equals an ambiguous key is excluded
\* from matching: the author is assigned to nobody, the person_id stays null
\* and the name is reported unresolved.
C10_AmbiguousUnresolved ==
    pc = "resolve_authors returned" =>
        \A a \in AuthorsOf(publications) :
            AmbiguousKey(people, normalize_name(a.name)) =>
                a.person_id = None /\ a.name \in Range(unresolved_authors)

-----------------------------------------------------------------------------
(* resolver.py: compute_backlinks called twice on one LabData *)

\* Publications as resolve_authors leaves them for the roster of two people.
LinkedPublications ==
    {resolve_authors(<<pub>>, load_people([path |-> "people.yaml", exists |-> TRUE,
                                            records |-> <<Roster.jsmith, Roster.jdoe>>]),
                     FUZZY_THRESHOLD).publications[1] :
        pub \in ParsedPublications}

Loaded(record) ==
    load_people([path |-> "people.yaml", exists |-> TRUE, records |-> <<record>>])[1]

\* The people of a LabData: none, the roster, a roster without the person the
\* authors refer to, one id twice, and a roster that carries back-links already.
BacklinkRosters ==
    {<<>>,
     <<Loaded(Roster.jsmith), Loaded(Roster.jdoe)>>,
     <<Loaded(Roster.jdoe)>>,
     <<Loaded(Roster.jsmith), Loaded(Roster.again)>>,
     <<[Loaded(Roster.jsmith) EXCEPT !.publication_ids = <<"smith2024robot">>,
                                     !.publication_count = 1],
       Loaded(Roster.jdoe)>>}

\* The projects of a LabData, as loaded or with back-links already.
BacklinkProjectPool ==
    Range(load_projects([path |-> "projects.yaml", exists |-> TRUE,
                         records |-> <<[id |-> "robotfeeding"], [id |-> "mobility"]>>]))
    \cup {[id |-> "robotfeeding",
           publication_ids |-> <<"smith2023grasp", "thesis2020">>,
           people_ids |-> <<"jsmith">>]}

BacklinksInit ==
    /\ pc = "call compute_backlinks"
    /\ publications \in SeqUpTo(LinkedPublications, MaxPubs)
    /\ people \in BacklinkRosters
    /\ projects \in SeqUpTo(BacklinkProjectPool, MaxProjects)
    /\ data = "LabData"
    /\ config = Unused
    /\ unresolved_authors = <<>>
    /\ unknown_projects = <<>>
    /\ collaborators = <<>>
    /\ steps = <<>>
    /\ name = Unused /\ index = <<>> /\ threshold = 0 /\ result = Unused
    /\ ParserIdle

\* compute_backlinks(data), lines 188-226.
Backlink ==
    /\ \E d \in {compute_backlinks(publications, people, projects)} :
           /\ people' = d.people
           /\ projects' = d.projects
    /\ UNCHANGED <<config, publications, unresolved_authors, unknown_projects,
                   collaborators, data, steps, fuzzyVars, parserVars>>

CallComputeBacklinks ==
    /\ pc = "call compute_backlinks"
    /\ Backlink
    /\ pc' = "compute_backlinks returned"

CallComputeBacklinksAgain ==
    /\ pc = "compute_backlinks returned"
    /\ Backlink
    /\ pc' = "compute_backlinks returned again"

NextBacklinks == CallComputeBacklinks \/ CallComputeBacklinksAgain

SpecBacklinks == BacklinksInit /\ [][NextBacklinks]_vars

\* No element carries a publication id or a person id.
BacklinksEmpty(ps, projs) ==
    /\ \A i \in 1..Len(ps) : ps[i].publication_ids = <<>>
    /\ \A i \in 1..Len(projs) :
          projs[i].publication_ids = <<>> /\ projs[i].people_ids = <<>>

\* No publication_ids list holds a bib_id twice.
NoRepeats(xs) ==
    \A i \in 1..Len(xs) :
        Cardinality(Range(xs[i].publication_ids)) = Len(xs[i].publication_ids)

\* C1: compute_backlinks is idempotent: a second call on the same LabData
\* leaves every Person's publication_ids and publication_count and every
\* Project's publication_ids and people_ids as the first call left them, and
\* when the back-link lists start empty no bib_id occurs twice in any of them.
C1_BacklinksIdempotent ==
    [][/\ pc = "compute_backlinks returned" =>
              people' = people /\ projects' = projects
       /\ BacklinksEmpty(people, projects) =>
              NoRepeats(people') /\ NoRepeats(projects')]_vars

\* The second call has returned on a LabData of two publications of one
\* bib_id, with a person and a project that carry it.
C1_Witness ==
    /\ pc = "compute_backlinks returned again"
    /\ Len(publications) = 2
    /\ publications[1].bib_id = publications[2].bib_id
    /\ \E i \in 1..Len(people) : people[i].publication_ids = <<publications[1].bib_id>>
    /\ \E i \in 1..Len(projects) :
          /\ projects[i].publication_ids = <<publications[1].bib_id>>
          /\ projects[i].people_ids # <<>>
-----------------------------------------------------------------------------
(* resolve_projects and the project back-links within assemble *)

\* The project ids that occur in some Publication.project_ids.
ReferencedProjects(pubs) == UNION {Range(pubs[i].project_ids) : i \in 1..Len(pubs)}

\* The positions of assemble after resolve_projects has returned.
AfterResolveProjects == {"collaborators", "LabData", "compute_backlinks", "return"}

\* C11: resolve_projects returns exactly the sorted, duplicate-free list of
\* the project ids that occur in some Publication.project_ids and are the id
\* of no Project of the projects list; the list is empty when every
\* referenced id is known.
C11_UnknownProjectsReturned ==
    pc \in AfterResolveProjects =>
        /\ Range(unknown_projects) = ReferencedProjects(publications) \ Ids(projects)
        /\ StrictlyAscending(unknown_projects)
        /\ (ReferencedProjects(publications) \subseteq Ids(projects)
               => unknown_projects = <<>>)

\* resolve_projects has returned two unknown ids that the publications name
\* in the other order, one of them twice, next to a known id.
C11_Witness ==
    /\ pc \in AfterResolveProjects
    /\ unknown_projects = <<"nonexistent", "robotfeeding">>
    /\ Len(publications) = 3
    /\ publications[1].project_ids = <<"robotfeeding">>
    /\ publications[3].project_ids = <<"nonexistent", "robotfeeding">>
    /\ "mobility" \in ReferencedProjects(publications) \cap Ids(projects)

\* C12: an unknown project id is reported but never stripped: after
\* resolve_projects and compute_backlinks every Publication.project_ids is
\* the list of its record in the source files, every bib_id of a Project's publication_ids is
\* that of a publication that names the project's id, and no Project has a
\* reported id.
C12_UnknownProjectKept ==
    pc \in AfterResolveProjects =>
        /\ \A k \in 1..Len(publications) :
               \E f \in Range(config.bib_files) : \E e \in Range(f.entries) :
                   /\ e.ID = publications[k].bib_id
                   /\ parse_project_ids(e) = publications[k].project_ids
        /\ \A i \in 1..Len(projects) :
               \A b \in Range(projects[i].publication_ids) :
                   \E k \in 1..Len(publications) :
                       /\ publications[k].bib_id = b
                       /\ projects[i].id \in Range(publications[k].project_ids)
        /\ Range(unknown_projects) \cap Ids(projects) = {}

\* assemble has returned for a publication that names an unknown id before
\* a known one: the id is reported, still on the publication, and the known
\* project is linked.
C12_Witness ==
    /\ pc = "return"
    /\ "nonexistent" \in Range(unknown_projects)
    /\ \E k \in 1..Len(publications) :
           /\ publications[k].project_ids = <<"nonexistent", "robotfeeding">>
           /\ \E i \in 1..Len(projects) :
                  /\ projects[i].id = "robotfeeding"
                  /\ publications[k].bib_id \in Range(projects[i].publication_ids)
    /\ \E i \in 1..Len(projects) : projects[i].publication_ids = <<>>

-----------------------------------------------------------------------------
(* parsers/bibtex.py: entry_to_publication called on its own *)

\* The year and url fields of a record: absent, well formed, or not.
RawYears == {None, "2024", "2023", " 2024 ", "", "in press", "2024a"}

RawUrls ==
    {None, "", "https://www.youtube.com/watch?v=abc", "https://youtu.be/abc",
     "https://vimeo.com/123", "https://example.org/paper.pdf",
     "http://example.org/talks"}

RawEntries ==
    [ID      : {"smith2024robot"},
     year    : RawYears,
     author  : {"Smith, John and Jones, E. E."},
     url     : RawUrls,
     project : {None, "{robotfeeding}"}]

Categories == {"Journal Papers", "Preprints"}

EntryInit ==
    /\ pc = "call entry_to_publication"
    /\ entry_in \in RawEntries
    /\ category_in \in Categories
    /\ bib_files_in = <<>>
    /\ FormatIdle
    /\ name = Unused /\ index = <<>> /\ threshold = 0 /\ result = Unused
    /\ AssembleIdle

\* Lines 197-228: the Publication, or the ValueError of line 216.
EntryToPublication ==
    /\ pc = "call entry_to_publication"
    /\ IF EntryRaises(entry_in)
       THEN pc' = "entry_to_publication raised" /\ result' = "ValueError"
       ELSE /\ pc' = "entry_to_publication returned"
            /\ result' = entry_to_publication(entry_in, category_in)
    /\ UNCHANGED <<name, index, threshold, assembleVars, parserVars>>

NextEntry == EntryToPublication

SpecEntry == EntryInit /\ [][NextEntry]_vars

\* The integer a year field stands for; 0 for a field that is absent or
\* that stands for no integer.
YearOf(field) == IF field = None \/ IntRaises(field) THEN 0 ELSE int(field)

\* C15: entry_to_publication produces a Publication whose year is the
\* integer value of the record's year field, and 0 whenever that field is
\* absent or cannot be parsed as an integer.
C15_YearIntegerOrZero ==
    pc # "call entry_to_publication" =>
        /\ pc = "entry_to_publication returned"
        /\ result.year = YearOf(entry_in.year)

\* The URL names one of the known video hosts.
PointsToVideoHost(url) == \E host \in VideoHosts : Find(url, host) # 0

\* C16: the Publication built from a record has at most one of url and
\* video_url: a raw URL that points to youtube.com, youtu.be or vimeo.com
\* is the video_url and url is null; otherwise video_url is null and url is
\* the raw URL, or null when the record has no URL.
C16_UrlOrVideoUrl ==
    pc = "entry_to_publication returned" =>
        /\ result.url = None \/ result.video_url = None
        /\ IF entry_in.url # None /\ PointsToVideoHost(entry_in.url)
           THEN result.video_url = entry_in.url /\ result.url = None
           ELSE /\ result.video_url = None
                /\ result.url = IF entry_in.url \in {None, ""} THEN None
                                ELSE entry_in.url

\* A record whose URL is a video has been converted.
C16_Witness ==
    /\ pc = "entry_to_publication returned"
    /\ entry_in.url = "https://youtu.be/abc"
    /\ result.video_url = "https://youtu.be/abc"
    /\ result.url = None

-----------------------------------------------------------------------------
(* parsers/bibtex.py: parse_all_publications called on its own *)

\* The configured files: those of the assembly, a file with two records of
\* one year around an undated one, a file bibtexparser rejects and a file
\* with a record whose year is no integer.
ParseBibFiles ==
    BibFiles \cup
    {[name |-> "workshop.bib", category |-> "Workshop Papers", exists |-> TRUE,
      parses |-> TRUE,
      entries |-> <<Entries.doe2023, Entries.undated, Entries.jones2023>>],
     [name |-> "broken.bib", category |-> "Other", exists |-> TRUE,
      parses |-> FALSE, entries |-> <<>>],
     [name |-> "inpress.bib", category |-> "Preprints", exists |-> TRUE,
      parses |-> TRUE, entries |-> <<Entries.inpress>>]}

ParseInit ==
    /\ pc = "call parse_all_publications"
    /\ bib_files_in \in SeqUpTo(ParseBibFiles, MaxFiles)
    /\ entry_in = Unused /\ category_in = Unused
    /\ FormatIdle
    /\ name = Unused /\ index = <<>> /\ threshold = 0 /\ result = Unused
    /\ AssembleIdle

\* Lines 231-257: the list returned, or the exception that leaves the call.
CallParseAllPublications ==
    /\ pc = "call parse_all_publications"
    /\ IF ParseRaises(bib_files_in)
       THEN pc' = "parse_all_publications raised" /\ result' = result
       ELSE /\ pc' = "parse_all_publications returned"
            /\ result' = parse_all_publications(bib_files_in)
    /\ UNCHANGED <<name, index, threshold, assembleVars, parserVars>>

NextParse == CallParseAllPublications

SpecParse == ParseInit /\ [][NextParse]_vars

\* The records of the configured files in encounter order: the order of the
\* files, then the order within the file.
RECURSIVE Encountered(_)
Encountered(files) ==
    IF files = <<>> THEN <<>>
    ELSE [j \in 1..Len(Head(files).entries) |->
             [bib_id   |-> Head(files).entries[j].ID,
              category |-> Head(files).category,
              year     |-> YearOf(Head(files).entries[j].year)]]
         \o Encountered(Tail(files))

\* The publications as the records they were built from.
Described(pubs) ==
    [i \in 1..Len(pubs) |->
        [bib_id |-> pubs[i].bib_id, category |-> pubs[i].category,
         year |-> pubs[i].year]]

OfYear(list, y) == SelectSeq(list, LAMBDA p : p.year = y)

\* C13: parse_all_publications returns one Publication per record of every
\* configured file, sorted by year descending, and the sort is stable: the
\* publications of one year appear in source encounter order.
C13_StableYearDescending ==
    pc = "parse_all_publications returned" =>
        /\ Len(result) = Len(Encountered(bib_files_in))
        /\ \A i \in 1..(Len(result) - 1) : result[i].year >= result[i + 1].year
        /\ \A y \in {p.year : p \in Range(Encountered(bib_files_in))} :
               OfYear(Described(result), y) = OfYear(Encountered(bib_files_in), y)

\* A file with its records out of year order and a file with two records of
\* 2023 around an undated one were parsed: the record of 2024 comes first,
\* the records of 2023 keep the order of the files and of the second file,
\* and the undated record comes last.
C13_Witness ==
    /\ pc = "parse_all_publications returned"
    /\ Len(bib_files_in) = 2
    /\ [i \in 1..Len(result) |-> result[i].bib_id]
          = <<"smith2024robot", "smith2023grasp", "doe2023survey",
              "jones2023preprint", "doe-notes">>

\* The file cannot be opened or bibtexparser rejects it.
Fails(file) == ~file.exists \/ ~file.parses

\* C14: a missing or unparseable configured source file is a hard failure:
\* parse_all_publications raises and returns no publication list, never a
\* partial list built from the other files, whatever the position of the
\* failing file.
C14_FailingFileRaises ==
    (pc # "call parse_all_publications"
        /\ \E i \in 1..Len(bib_files_in) : Fails(bib_files_in[i])) =>
        /\ pc = "parse_all_publications raised"
        /\ result = Unused

\* The call has raised for a missing file configured after a file with
\* records.
C14_Witness ==
    /\ pc = "parse_all_publications raised"
    /\ Len(bib_files_in) = 2
    /\ bib_files_in[1].entries # <<>> /\ ~Fails(bib_files_in[1])
    /\ ~bib_files_in[2].exists

-----------------------------------------------------------------------------
(* assembler.py: the collaborators of the assembled data set *)

\* The positions of assemble after the collaborators were aggregated.
AfterCollaborators == {"LabData", "compute_backlinks", "return"}

\* The names of the authors with a null person_id.
UnresolvedNames(pubs) == {a.name : a \in {b \in AuthorsOf(pubs) : b.person_id = None}}

\* The publications in which an unresolved author with the name appears.
PublicationsNaming(pubs, n) ==
    {k \in 1..Len(pubs) :
        \E a \in Range(pubs[k].authors) : a.name = n /\ a.person_id = None}

\* C17: assemble produces exactly one Collaborator per distinct name of an
\* author with null person_id, and its publication_count is the number of
\* distinct publications in which an unresolved author with that name
\* appears.
C17_CollaboratorPerUnresolvedName ==
    pc \in AfterCollaborators =>
        /\ {c.name : c \in Range(collaborators)} = UnresolvedNames(publications)
        /\ Len(collaborators) = Cardinality(UnresolvedNames(publications))
        /\ \A c \in Range(collaborators) :
               c.publication_count
                   = Cardinality(PublicationsNaming(publications, c.name))

-----------------------------------------------------------------------------
(* assemble end to end on three records *)

\* Three source records: one by a roster member under the alias "J. Smith"
\* that the roster lists, one by the same member as "John A. Smith", which
\* the roster does not list, and one by a name unrelated to the roster.
ThreeRecords ==
    /\ Len(config.bib_files) = 1
    /\ config.bib_files[1].entries = <<Entries.exact, Entries.near, Entries.external>>
    /\ Roster.jsmith \in Range(config.people_file.records)

\* All authors of all publications, one element per byline entry.
RECURSIVE Bylines(_)
Bylines(pubs) ==
    IF pubs = <<>> THEN <<>> ELSE Head(pubs).authors \o Bylines(Tail(pubs))

-----------------------------------------------------------------------------
(* models.py: the dictionary projection, as the exporters call it *)

\* Publication.to_dict, lines 44-65, for the fields of the model.
PublicationToDict(pub) ==
    [bib_id      |-> pub.bib_id,
     authors     |-> [i \in 1..Len(pub.authors) |->
                         [name |-> pub.authors[i].name,
                          person_id |-> pub.authors[i].person_id]],
     year        |-> pub.year,
     category    |-> pub.category,
     url         |-> pub.url,
     video_url   |-> pub.video_url,
     project_ids |-> pub.project_ids]

\* Person.to_dict, lines 91-118: the aliases are not exported, and the
\* publication_ids only when there are some.
PersonToDict(person) ==
    IF person.publication_ids # <<>>
    THEN [id |-> person.id, name |-> person.name,
          publication_count |-> person.publication_count,
          publication_ids |-> person.publication_ids]
    ELSE [id |-> person.id, name |-> person.name,
          publication_count |-> person.publication_count]

\* Project.to_dict, lines 134-144.
ProjectToDict(project) ==
    [id |-> project.id, publication_ids |-> project.publication_ids,
     people_ids |-> project.people_ids]

\* LabData.to_dict, lines 154-160.
to_dict(pubs, ps, projs) ==
    [publications |-> [i \in 1..Len(pubs) |-> PublicationToDict(pubs[i])],
     people       |-> [i \in 1..Len(ps) |-> PersonToDict(ps[i])],
     projects     |-> [i \in 1..Len(projs) |-> ProjectToDict(projs[i])]]

\* A LabData: empty, or as compute_backlinks leaves it.
BacklinkedData ==
    {compute_backlinks(pubs, ps, projs) @@ [publications |-> pubs] :
        pubs \in SeqUpTo(LinkedPublications, MaxPubs),
        ps \in {<<>>, <<Loaded(Roster.jsmith), Loaded(Roster.jdoe)>>},
        projs \in SeqUpTo(Range(load_projects(
                      [path |-> "projects.yaml", exists |-> TRUE,
                       records |-> <<[id |-> "robotfeeding"], [id |-> "mobility"]>>])),
                  MaxProjects)}

ExportInit ==
    /\ pc = "call to_dict"
    /\ \E d \in BacklinkedData :
           /\ publications = d.publications
           /\ people = d.people
           /\ projects = d.projects
    /\ data = "LabData"
    /\ config = Unused
    /\ unresolved_authors = <<>>
    /\ unknown_projects = <<>>
    /\ collaborators = <<>>
    /\ steps = <<>>
    /\ name = Unused /\ index = <<>> /\ threshold = 0 /\ result = Unused
    /\ ParserIdle

\* data.to_dict(), exporters.py lines 29 and 45.
ToDict ==
    /\ pc = "call to_dict"
    /\ result' = to_dict(publications, people, projects)
    /\ pc' = "to_dict returned"
    /\ UNCHANGED <<name, index, threshold, assembleVars, parserVars>>

NextExport == ToDict

SpecExport == ExportInit /\ [][NextExport]_vars

\* C19: the dictionary projection of the assembled data set carries the four
\* collections publications, people, projects and collaborators; for an
\* empty data set it is exactly {publications: [], people: [], projects: [],
\* collaborators: []}.
C19_FourCollections ==
    pc = "to_dict returned" =>
        /\ DOMAIN result = {"publications", "people", "projects", "collaborators"}
        /\ (publications = <<>> /\ people = <<>> /\ projects = <<>>) =>
               result = [publications |-> <<>>, people |-> <<>>,
                         projects |-> <<>>, collaborators |-> <<>>]

-----------------------------------------------------------------------------
(* assemble: what the passes after the parser leave of a Publication *)

\* The publications without the person_ids of their authors.
WithoutPersonIds(pubs) ==
    [i \in 1..Len(pubs) |->
        [pubs[i] EXCEPT !.authors =
            [j \in 1..Len(pubs[i].authors) |->
                [pubs[i].authors[j] EXCEPT !.person_id = None]]]]

\* C20: once the parser has built the publications, resolve_authors,
\* resolve_projects, the aggregation of the collaborators and
\* compute_backlinks change nothing of them except authors[*].person_id:
\* the fields, the author names and their order, and the order of the list
\* stay as they are.
C20_OnlyPersonIdMutated ==
    [][pc # "parse_all_publications" =>
          WithoutPersonIds(publications') = WithoutPersonIds(publications)]_vars

\* assemble has returned publications of which resolve_authors has set one
\* person_id and left another null.
C20_Witness ==
    /\ pc = "return"
    /\ Len(publications) >= 2
    /\ \E a, b \in AuthorsOf(publications) : a.person_id = None /\ b.person_id # None
    /\ publications # WithoutPersonIds(publications)

-----------------------------------------------------------------------------
(* resolver.py: the publication counts compute_backlinks leaves *)

\* C21: after compute_backlinks every Person of the data set, a Person named
\* by no publication included, has publication_count equal to the length of
\* its publication_ids.
C21_CountIsLength ==
    pc \in {"compute_backlinks returned", "compute_backlinks returned again"} =>
        \A i \in 1..Len(people) :
            people[i].publication_count = Len(people[i].publication_ids)

\* compute_backlinks has returned for a roster of which one Person is named
\* by a publication and another by none.
C21_Witness ==
    /\ pc = "compute_backlinks returned"
    /\ \E i, j \in 1..Len(people) :
           /\ people[i].publication_ids # <<>>
           /\ people[i].publication_count = Len(people[i].publication_ids)
           /\ people[j].publication_ids = <<>>
           /\ people[j].publication_count = 0
           /\ people[j].id \notin {a.person_id : a \in AuthorsOf(publications)}

-----------------------------------------------------------------------------
(* parsers/bibtex.py: parse_project_ids called on its own *)

MaxTokens == 2

\* A token between two commas of a project field: the text as written and
\* the project id it stands for, "" for none.
WrittenTokens ==
    {[text |-> "robotfeeding", id |-> "robotfeeding"],
     [text |-> " planning", id |-> "planning"],
     [text |-> "planning ", id |-> "planning"],
     [text |-> "", id |-> ""],
     [text |-> " ", id |-> ""]}

\* What stands before the first token and after the last one.
Openings == {"", "{", "{{", " {"}
Closings == {"", "}", "}}", "} "}

\* The project fields of the model as they are written: the tokens, what
\* stands around them, and whether the record has the field at all.
WrittenFields ==
    [lead : Openings, tokens : SeqUpTo(WrittenTokens, MaxTokens), trail : Closings,
     present : BOOLEAN]

\* The value of the project field as written.
FieldOf(w) ==
    IF ~w.present THEN None
    ELSE w.lead \o join(",", [i \in 1..Len(w.tokens) |-> w.tokens[i].text]) \o w.trail

\* The project ids written in a field, in order.
IdsWritten(w) ==
    IF ~w.present THEN <<>>
    ELSE SelectSeq([i \in 1..Len(w.tokens) |-> w.tokens[i].id], Truthy)

ProjectIdsInit ==
    /\ pc = "call parse_project_ids"
    /\ \E w \in WrittenFields : entry_in = [project |-> FieldOf(w)]
    /\ category_in = Unused
    /\ bib_files_in = <<>>
    /\ FormatIdle
    /\ name = Unused /\ index = <<>> /\ threshold = 0 /\ result = Unused
    /\ AssembleIdle

\* parse_project_ids(entry), lines 178-184.
CallParseProjectIds ==
    /\ pc = "call parse_project_ids"
    /\ result' = parse_project_ids(entry_in)
    /\ pc' = "parse_project_ids returned"
    /\ UNCHANGED <<name, index, threshold, assembleVars, parserVars>>

NextProjectIds == CallParseProjectIds

SpecProjectIds == ProjectIdsInit /\ [][NextProjectIds]_vars

\* The field without one layer of enclosing braces: without the brace it
\* opens with, if it opens with one, and the brace it closes with.
OneLayerRemoved(field) ==
    LET opened == IF Len(field) >= 1 /\ Ch(field, 1) = "{" THEN From(field, 2)
                  ELSE field
    IN  IF Len(opened) >= 1 /\ Ch(opened, Len(opened)) = "}"
        THEN SubSeq(opened, 1, Len(opened) - 1)
        ELSE opened

\* C22 as stated: parse_project_ids returns the comma-separated tokens of the
\* project field after removing one layer of enclosing braces and trimming
\* each token, with empty tokens dropped and the order and duplicates of the
\* remaining tokens kept; a missing, empty or whitespace-only field yields
\* the empty list.
C22_OneLayerOfBraces ==
    pc = "parse_project_ids returned" =>
        LET field == strip(GetField(entry_in.project, ""))
        IN  result = IF field = "" THEN <<>>
                     ELSE SelectSeq(StripAll(SplitOn(OneLayerRemoved(field), ",")),
                                    Truthy)

\* C22 as amended: parse_project_ids returns the comma-separated tokens of
\* the project field after removing every brace that leads or trails the
\* trimmed field and trimming each token, with empty tokens dropped and the
\* order and duplicates of the remaining tokens kept; a missing, empty or
\* whitespace-only field yields the empty list.
C22_EveryOuterBrace ==
    pc = "parse_project_ids returned" =>
        \A w \in WrittenFields :
            FieldOf(w) = entry_in.project => result = IdsWritten(w)

\* parse_project_ids has returned the two ids of a field in two layers of
\* braces, with a token repeated and an empty one dropped.
C22_Witness ==
    /\ pc = "parse_project_ids returned"
    /\ entry_in.project \in {"{{planning ,robotfeeding}}", "{{planning , planning}}",
                              "{{,robotfeeding}}"}
    /\ result \in {<<"planning", "robotfeeding">>, <<"planning", "planning">>,
                    <<"robotfeeding">>}

-----------------------------------------------------------------------------
(* latex.py: replace_latex_accents called on its own *)

\* The surface forms of a table entry: the bare command, the whole command
\* in braces and, for a command that ends in a letter, the command with
\* that letter in braces.
SurfaceForms(latex) ==
    LET last == Ch(latex, Len(latex))
    IN  {latex, "{" \o latex \o "}"}
        \cup (IF Len(latex) >= 2 /\ Find(UpperLetters \o LowerLetters, last) # 0
              THEN {SubSeq(latex, 1, Len(latex) - 1) \o "{" \o last \o "}"}
              ELSE {})

\* Texts with an accent command: a surface form alone or inside a word.
AccentedTexts ==
    {before \o form \o after :
        before \in {"", "Caf", "{M"},
        form \in UNION {SurfaceForms(LATEX_ACCENTS[i].latex) :
                            i \in 1..Len(LATEX_ACCENTS)},
        after \in {"", "ller}"}}

AccentsInit ==
    /\ pc = "call replace_latex_accents"
    /\ text_in \in AccentedTexts
    /\ authors_in = <<>>
    /\ entry_in = Unused /\ category_in = Unused /\ bib_files_in = <<>>
    /\ name = Unused /\ index = <<>> /\ threshold = 0 /\ result = Unused
    /\ AssembleIdle

\* replace_latex_accents(text), lines 84-105.
CallReplaceLatexAccents ==
    /\ pc = "call replace_latex_accents"
    /\ result' = replace_latex_accents(text_in)
    /\ pc' = "replace_latex_accents returned"
    /\ UNCHANGED <<name, index, threshold, assembleVars, parserVars>>

NextAccents == CallReplaceLatexAccents

SpecAccents == AccentsInit /\ [][NextAccents]_vars

\* C23: for every entry of the accent table, replace_latex_accents applied to
\* the bare command, to the command with its character in braces, and to
\* the whole command in braces returns, in each case, exactly the entry's
\* Unicode character and nothing else.
C23_SurfaceFormsToCharacter ==
    pc = "replace_latex_accents returned" =>
        \A i \in 1..Len(LATEX_ACCENTS) :
            text_in \in SurfaceForms(LATEX_ACCENTS[i].latex) =>
                result = LATEX_ACCENTS[i].uni

-----------------------------------------------------------------------------
(* latex.py: latex_to_markdown called on its own *)

\* Text outside math and math spans, of which the texts of the model are
\* put together.  A title of a BibTeX file may run over several lines.
OutsideMath == {"", "\\textbf{b} ", "{\\'e}x^{2} ", "\\emph{", "} __MATH7__"}

MathWritten == {"", "$\\textbf{x}$", "$x_{i}$", "$\\'e$", "$a\n+ {b}$"}

MarkdownTexts ==
    {o1 \o m1 \o o2 \o m2 : o1 \in OutsideMath \ {"} __MATH7__"}, m1 \in MathWritten,
                            o2 \in OutsideMath, m2 \in MathWritten}

MarkdownInit ==
    /\ pc = "call latex_to_markdown"
    /\ text_in \in MarkdownTexts
    /\ authors_in = <<>>
    /\ entry_in = Unused /\ category_in = Unused /\ bib_files_in = <<>>
    /\ name = Unused /\ index = <<>> /\ threshold = 0 /\ result = Unused
    /\ AssembleIdle

\* latex_to_markdown(text), lines 108-156.
CallLatexToMarkdown ==
    /\ pc = "call latex_to_markdown"
    /\ \E protected \in {ProtectMath(text_in, <<>>)} :
       \E rewritten \in {Rewritten(protected)} :
           IF RestoreRaises(rewritten.text, rewritten.math_blocks)
           THEN /\ pc' = "latex_to_markdown raised"
                /\ result' = "IndexError"
           ELSE /\ pc' = "latex_to_markdown returned"
                /\ result' = RestoreMath(rewritten.text, rewritten.math_blocks)
    /\ UNCHANGED <<name, index, threshold, assembleVars, parserVars>>

NextMarkdown == CallLatexToMarkdown

SpecMarkdown == MarkdownInit /\ [][NextMarkdown]_vars

\* The $...$ math spans of a text, delimiters included: the dollar signs
\* pair up in the order they stand in.
MathSpans(text) ==
    LET dollars == {i \in 1..Len(text) : Ch(text, i) = "$"}
        nth(k) == CHOOSE i \in dollars : Cardinality({j \in dollars : j <= i}) = k
    IN  [k \in 1..(Cardinality(dollars) \div 2) |->
            SubSeq(text, nth(2 * k - 1), nth(2 * k))]

\* C24: latex_to_markdown returns every $...$ math span of its input
\* verbatim: delimiters and content unchanged, braces, formatting commands
\* and accent commands inside the span included.
C24_MathSpansVerbatim ==
    pc = "latex_to_markdown returned" => MathSpans(result) = MathSpans(text_in)

-----------------------------------------------------------------------------
(* parsers/bibtex.py: format_authors_string called on its own *)

MaxAuthors == 3

\* Authors as parse_author_list and resolve_authors leave them.
FormattedAuthors ==
    {[name |-> "J. Smith", person_id |-> "jsmith"],
     [name |-> "J. Doe", person_id |-> None],
     [name |-> "H. Müller", person_id |-> None],
     [name |-> "E. E. Jones", person_id |-> None]}

FormatInit ==
    /\ pc = "call format_authors_string"
    /\ authors_in \in SeqUpTo(FormattedAuthors, MaxAuthors)
    /\ text_in = Unused
    /\ entry_in = Unused /\ category_in = Unused /\ bib_files_in = <<>>
    /\ name = Unused /\ index = <<>> /\ threshold = 0 /\ result = Unused
    /\ AssembleIdle

\* format_authors_string(authors), lines 88-96.
CallFormatAuthorsString ==
    /\ pc = "call format_authors_string"
    /\ result' = format_authors_string(authors_in)
    /\ pc' = "format_authors_string returned"
    /\ UNCHANGED <<name, index, threshold, assembleVars, parserVars>>

NextFormat == CallFormatAuthorsString

SpecFormat == FormatInit /\ [][NextFormat]_vars

\* The names of the authors from the i-th on, each followed by ", ", up to
\* the last one, which "and " precedes.
RECURSIVE CommaList(_, _)
CommaList(authors, i) ==
    IF i = Len(authors) THEN "and " \o authors[i].name
    ELSE authors[i].name \o ", " \o CommaList(authors, i + 1)

\* C25: format_authors_string returns the single name for one author,
\* "A and B" for exactly two authors, and for three or more authors all
\* names but the last joined by ", " followed by ", and " and the last
\* name ("A, B, and C"), with the names in author-list order.
C25_AuthorsString ==
    pc = "format_authors_string returned" =>
        /\ Len(authors_in) = 1 => result = authors_in[1].name
        /\ Len(authors_in) = 2 =>
               result = authors_in[1].name \o " and " \o authors_in[2].name
        /\ Len(authors_in) >= 3 => result = CommaList(authors_in, 1)

\* format_authors_string has returned "J. Smith, J. Doe, and H. Müller".
C25_Witness ==
    /\ pc = "format_authors_string returned"
    /\ Len(authors_in) = 3
    /\ authors_in[1].name = "J. Smith" /\ authors_in[3].name = "H. Müller"
    /\ result = "J. Smith, J. Doe, and H. Müller"

-----------------------------------------------------------------------------
(* resolver.py: build_alias_index on its own *)

\* People whose names and aliases collide: two ids with one canonical name,
\* one alias of several ids, an alias listed twice by one person, a canonical
\* name that is another person's alias, and one id on two records.
IndexedPeople ==
    {Loaded(Roster.jsmith), Loaded(Roster.jdoe), Loaded(Roster.namesake),
     Loaded(Roster.initial), Loaded(Roster.again), Loaded(Roster.twice),
     Loaded(Roster.named), Loaded(Roster.swapped)}

IndexInit ==
    /\ pc = "call build_alias_index"
    /\ people \in SeqUpTo(IndexedPeople, MaxPeople)
    /\ config = Unused
    /\ publications = <<>>
    /\ projects = <<>>
    /\ unresolved_authors = <<>>
    /\ unknown_projects = <<>>
    /\ collaborators = <<>>
    /\ data = None
    /\ steps = <<>>
    /\ name = Unused /\ index = <<>> /\ threshold = 0 /\ result = Unused
    /\ ParserIdle

\* build_alias_index(people), lines 61-93.
CallBuildAliasIndex ==
    /\ pc = "call build_alias_index"
    /\ index' = build_alias_index(people)
    /\ pc' = "build_alias_index returned"
    /\ UNCHANGED <<name, threshold, result, assembleVars, parserVars>>

NextIndex == CallBuildAliasIndex

SpecIndex == IndexInit /\ [][NextIndex]_vars

\* The normalized keys one person produces: the canonical name and every alias.
KeysOf(person) ==
    {normalize_name(person.name)}
        \cup {normalize_name(person.aliases[i]) : i \in 1..Len(person.aliases)}

\* The distinct person ids that produce the key k.
Producers(ps, k) == {ps[i].id : i \in {j \in 1..Len(ps) : k \in KeysOf(ps[j])}}

ProducedKeys(ps) == UNION {KeysOf(ps[i]) : i \in 1..Len(ps)}

-----------------------------------------------------------------------------
(* resolver.py: fuzzy_match, the best key *)

\* The positions of the keys whose ratio with the normalized name no other
\* key's ratio exceeds.
MaximalKeys(normalized, idx) ==
    {k \in 1..Len(idx) :
        \A j \in 1..Len(idx) :
            ~RatioGreater(ratio(normalized, idx[j].key), ratio(normalized, idx[k].key))}

FirstOf(positions) == CHOOSE k \in positions : \A j \in positions : k <= j

\* C27 as stated: for a name that is not abbreviated, fuzzy_match returns a
\* person id if and only if the greatest ratio of the normalized name with the
\* keys of the index is at least the threshold, and the id is that of the
\* first key, in the order of the index, among the keys of greatest ratio.
C27_FirstBestKeyAtThreshold ==
    (pc = "fuzzy_match returned" /\ ~is_abbreviated(normalize_name(name))) =>
        LET normalized == normalize_name(name)
            maximal    == MaximalKeys(normalized, index)
        IN  IF /\ maximal # {}
               /\ RatioAtLeast(ratio(normalized, index[FirstOf(maximal)].key), threshold)
            THEN result = index[FirstOf(maximal)].value
            ELSE result = None

\* C27, amended: for a name that is not abbreviated, fuzzy_match returns a
\* person id if and only if the greatest ratio of the normalized name with the
\* keys of the index is greater than zero and at least the threshold, and the
\* id is that of the first key, in the order of the index, among the keys of
\* greatest ratio.
C27_FirstBestKeyAboveZero ==
    (pc = "fuzzy_match returned" /\ ~is_abbreviated(normalize_name(name))) =>
        LET normalized == normalize_name(name)
            maximal    == MaximalKeys(normalized, index)
        IN  IF /\ maximal # {}
               /\ RatioGreater(ratio(normalized, index[FirstOf(maximal)].key), <<0, 1>>)
               /\ RatioAtLeast(ratio(normalized, index[FirstOf(maximal)].key), threshold)
            THEN result = index[FirstOf(maximal)].value
            ELSE result = None

\* fuzzy_match has returned for "Jon Smith" on an index whose two keys, of
\* different people, have the same ratio 18/19 with "jon smith": the id of
\* the first key came back.
C27_Witness ==
    /\ pc = "fuzzy_match returned"
    /\ name = "Jon Smith"
    /\ ~is_abbreviated(normalize_name(name))
    /\ threshold = FUZZY_THRESHOLD
    /\ Len(index) = 2
    /\ MaximalKeys(normalize_name(name), index) = {1, 2}
    /\ index[1].value # index[2].value
    /\ result = index[1].value

-----------------------------------------------------------------------------
(* assembler.py: the order of the collaborators *)

\* The years of the publications that name an unresolved author n.
YearsNaming(pubs, n) == {pubs[k].year : k \in PublicationsNaming(pubs, n)}

\* The position in the publications, byline by byline, at which an unresolved
\* author of the name is met first.
FirstMet(pubs, n) ==
    CHOOSE i \in 1..Len(Bylines(pubs)) :
        /\ Bylines(pubs)[i].name = n /\ Bylines(pubs)[i].person_id = None
        /\ \A j \in 1..(i - 1) :
               ~(Bylines(pubs)[j].name = n /\ Bylines(pubs)[j].person_id = None)

-----------------------------------------------------------------------------
(* The life of Author.person_id within one assembly *)

\* The person_id of every author, publication by publication.
PersonIdsOf(pubs) ==
    [k \in 1..Len(pubs) |->
        [i \in 1..Len(pubs[k].authors) |-> pubs[k].authors[i].person_id]]

\* C29: every Author is created by the ingestion with person_id = None, and
\* within one assembly the person_id of an Author changes at most once: only
\* in resolve_authors, from None to a person id; no later step (project
\* resolution, collaborator aggregation, back-linking) resolves it again or
\* resets it.
C29_PersonIdSetOnce ==
    [][/\ pc = "parse_all_publications" =>
              \A a \in AuthorsOf(publications') : a.person_id = None
       /\ pc # "parse_all_publications" =>
              /\ Len(publications') = Len(publications)
              /\ \A k \in 1..Len(publications) :
                     /\ Len(publications'[k].authors) = Len(publications[k].authors)
                     /\ \A i \in 1..Len(publications[k].authors) :
                            \/ PersonIdsOf(publications')[k][i]
                                   = PersonIdsOf(publications)[k][i]
                            \/ /\ pc = "resolve_authors"
                               /\ PersonIdsOf(publications)[k][i] = None
                               /\ PersonIdsOf(publications')[k][i]
                                      \in Ids(people)]_vars

\* assemble has returned with authors created, one of them resolved by
\* resolve_authors and one left with person_id = None.
C29_Witness ==
    /\ pc = "return"
    /\ \E a \in AuthorsOf(publications) : a.person_id \in Ids(people)
    /\ \E a \in AuthorsOf(publications) : a.person_id = None
    /\ people # <<>>

-----------------------------------------------------------------------------
(* assembler.py: collaborators and the unresolved authors *)

\* The names of the authors with a person_id.
ResolvedNames(pubs) == {a.name : a \in {b \in AuthorsOf(pubs) : b.person_id # None}}

====
